---- MODULE Spec2Model ----
(***************************************************************************)
(* Salesforce CSV uploader: the CSV processor (csv-processor.js), the      *)
(* bulk-job orchestration (salesforce-api.js) and the popup session that   *)
(* drives them (popup.js).                                                 *)
(*                                                                         *)
(* Text is a sequence of one-character strings, so that trimming,          *)
(* splitting, quoting and normalising are computed character by character  *)
(* as the code does.  An optional value (null or a value) is the empty set *)
(* or a singleton.                                                         *)
(***************************************************************************)
EXTENDS Integers, Sequences, FiniteSets, TLC

\* ------------------------------------------------------------------ bounds
\* performBulkUpload runs the model keeps a record for (the code has no cap).
MaxRuns == 2
\* The presses of the upload button in the bulk-job runs.
MaxUploads == 2
\* The events the user makes in a popup session.
MaxSessionEvents == 7
\* The events the user makes while loading files and editing the mapping.
MaxFileEvents == 5

\* -------------------------------------------------------- optional values
None == {}
Some(x) == {x}
The(o) == CHOOSE x \in o : TRUE

\* ------------------------------------------------------------------- text
Range(s) == {s[i] : i \in 1..Len(s)}

Whitespace == {" ", "\t", "\n", "\r"}

RECURSIVE TrimStart(_)
TrimStart(s) ==
  IF s # <<>> /\ Head(s) \in Whitespace THEN TrimStart(Tail(s)) ELSE s

RECURSIVE TrimEnd(_)
TrimEnd(s) ==
  IF s # <<>> /\ s[Len(s)] \in Whitespace
    THEN TrimEnd(SubSeq(s, 1, Len(s) - 1))
    ELSE s

\* String.prototype.trim
Trim(s) == TrimEnd(TrimStart(s))

\* String.prototype.split(sep) for a one-character separator: never empty,
\* the empty text splits into one empty piece.
RECURSIVE SplitFrom(_, _, _)
SplitFrom(s, sep, cur) ==
  IF s = <<>> THEN <<cur>>
  ELSE IF Head(s) = sep THEN <<cur>> \o SplitFrom(Tail(s), sep, <<>>)
  ELSE SplitFrom(Tail(s), sep, Append(cur, Head(s)))

Split(s, sep) == SplitFrom(s, sep, <<>>)

\* Array.prototype.join(sep)
RECURSIVE Join(_, _)
Join(parts, sep) ==
  IF parts = <<>> THEN <<>>
  ELSE IF Len(parts) = 1 THEN parts[1]
  ELSE parts[1] \o <<sep>> \o Join(Tail(parts), sep)

\* String.prototype.includes
Includes(s, t) ==
  \E i \in 0..(Len(s) - Len(t)) : SubSeq(s, i + 1, i + Len(t)) = t

RECURSIVE FilterChars(_, _)
FilterChars(s, keep) ==
  IF s = <<>> THEN <<>>
  ELSE IF Head(s) \in keep THEN <<Head(s)>> \o FilterChars(Tail(s), keep)
  ELSE FilterChars(Tail(s), keep)

Upper == <<"A","B","C","D","E","F","G","H","I","J","K","L","M",
           "N","O","P","Q","R","S","T","U","V","W","X","Y","Z">>
Lower == <<"a","b","c","d","e","f","g","h","i","j","k","l","m",
           "n","o","p","q","r","s","t","u","v","w","x","y","z">>
Digits == {"0","1","2","3","4","5","6","7","8","9"}

LowerChar(c) ==
  IF c \in Range(Upper)
    THEN Lower[CHOOSE i \in 1..26 : Upper[i] = c]
    ELSE c

\* String.prototype.toLowerCase
ToLowerCase(s) == [i \in 1..Len(s) |-> LowerChar(s[i])]

\* ------------------------------------------------------------ CSVProcessor
\* parseCSVLine: the character scan with the in-quotes flag; i is the index
\* of the loop, cur the current field, result the fields pushed so far.
RECURSIVE parseCSVLineFrom(_, _, _, _, _)
parseCSVLineFrom(line, i, inQuotes, cur, result) ==
  IF i > Len(line) THEN Append(result, Trim(cur))
  ELSE IF line[i] = "\"" THEN
    IF inQuotes /\ i + 1 <= Len(line) /\ line[i + 1] = "\""
      THEN parseCSVLineFrom(line, i + 2, inQuotes, Append(cur, "\""), result)
      ELSE parseCSVLineFrom(line, i + 1, ~inQuotes, cur, result)
  ELSE IF line[i] = "," /\ ~inQuotes
    THEN parseCSVLineFrom(line, i + 1, inQuotes, <<>>, Append(result, Trim(cur)))
  ELSE parseCSVLineFrom(line, i + 1, inQuotes, Append(cur, line[i]), result)

parseCSVLine(line) == parseCSVLineFrom(line, 1, FALSE, <<>>, <<>>)

\* A row object that has a key only for the headers the line has a cell for.
RowObjectNoPadding(headers, row) ==
  [h \in {headers[i] : i \in 1..(IF Len(row) < Len(headers)
                                   THEN Len(row) ELSE Len(headers))} |->
     row[CHOOSE i \in 1..Len(row) : i <= Len(headers) /\ headers[i] = h]]

\* rowObject[header] = row[index] || '': a header that occurs twice keeps the
\* cell of its last occurrence.
RowObject(headers, row) ==
  [h \in Range(headers) |->
     LET last == CHOOSE i \in 1..Len(headers) :
                   /\ headers[i] = h
                   /\ \A j \in (i + 1)..Len(headers) : headers[j] # h
     IN IF last <= Len(row) THEN row[last] ELSE <<>>]

RECURSIVE DataRows(_, _, _)
DataRows(lines, i, headers) ==
  IF i > Len(lines) THEN <<>>
  ELSE IF Trim(lines[i]) # <<>>
    THEN <<RowObject(headers, parseCSVLine(lines[i]))>>
           \o DataRows(lines, i + 1, headers)
  ELSE DataRows(lines, i + 1, headers)

ErrEmptyFile == <<"CSV file is empty">>

\* parseCSVText: error is the thrown message, if any.
parseCSVText(csvText) ==
  LET lines == Split(Trim(csvText), "\n") IN
  IF Len(lines) = 0
    THEN [error |-> Some(ErrEmptyFile), headers |-> <<>>, data |-> <<>>]
    ELSE LET headers == parseCSVLine(lines[1]) IN
         [error |-> None, headers |-> headers,
          data |-> DataRows(lines, 2, headers)]

AlphaNumLower == Range(Lower) \cup Digits

StripTrailingId(s) ==
  IF Len(s) >= 2 /\ s[Len(s) - 1] = "i" /\ s[Len(s)] = "d"
    THEN SubSeq(s, 1, Len(s) - 2)
    ELSE s

normalizeFieldName(fieldName) ==
  StripTrailingId(FilterChars(ToLowerCase(fieldName), AlphaNumLower))

commonMappings == <<
  [sfPattern |-> <<"f","i","r","s","t","n","a","m","e">>,
   csvPatterns |-> <<<<"f","i","r","s","t","n","a","m","e">>,
                    <<"f","n","a","m","e">>,
                    <<"g","i","v","e","n","n","a","m","e">>>>],
  [sfPattern |-> <<"l","a","s","t","n","a","m","e">>,
   csvPatterns |-> <<<<"l","a","s","t","n","a","m","e">>,
                    <<"l","n","a","m","e">>,
                    <<"s","u","r","n","a","m","e">>,
                    <<"f","a","m","i","l","y","n","a","m","e">>>>],
  [sfPattern |-> <<"e","m","a","i","l">>,
   csvPatterns |-> <<<<"e","m","a","i","l">>,
                    <<"e","m","a","i","l","a","d","d","r","e","s","s">>,
                    <<"m","a","i","l">>>>],
  [sfPattern |-> <<"p","h","o","n","e">>,
   csvPatterns |-> <<<<"p","h","o","n","e">>,
                    <<"p","h","o","n","e","n","u","m","b","e","r">>,
                    <<"t","e","l","e","p","h","o","n","e">>,
                    <<"m","o","b","i","l","e">>>>],
  [sfPattern |-> <<"c","o","m","p","a","n","y">>,
   csvPatterns |-> <<<<"c","o","m","p","a","n","y">>,
                    <<"c","o","m","p","a","n","y","n","a","m","e">>,
                    <<"o","r","g","a","n","i","z","a","t","i","o","n">>,
                    <<"a","c","c","o","u","n","t">>>>],
  [sfPattern |-> <<"t","i","t","l","e">>,
   csvPatterns |-> <<<<"t","i","t","l","e">>,
                    <<"j","o","b","t","i","t","l","e">>,
                    <<"p","o","s","i","t","i","o","n">>>>],
  [sfPattern |-> <<"s","t","r","e","e","t">>,
   csvPatterns |-> <<<<"s","t","r","e","e","t">>,
                    <<"a","d","d","r","e","s","s">>,
                    <<"a","d","d","r","e","s","s","1">>,
                    <<"s","t","r","e","e","t","a","d","d","r","e","s","s">>>>],
  [sfPattern |-> <<"c","i","t","y">>,
   csvPatterns |-> <<<<"c","i","t","y">>,
                    <<"t","o","w","n">>>>],
  [sfPattern |-> <<"s","t","a","t","e">>,
   csvPatterns |-> <<<<"s","t","a","t","e">>,
                    <<"p","r","o","v","i","n","c","e">>,
                    <<"r","e","g","i","o","n">>>>],
  [sfPattern |-> <<"p","o","s","t","a","l","c","o","d","e">>,
   csvPatterns |-> <<<<"z","i","p">>,
                    <<"z","i","p","c","o","d","e">>,
                    <<"p","o","s","t","a","l","c","o","d","e">>,
                    <<"p","o","s","t","c","o","d","e">>>>],
  [sfPattern |-> <<"c","o","u","n","t","r","y">>,
   csvPatterns |-> <<<<"c","o","u","n","t","r","y">>,
                    <<"n","a","t","i","o","n">>>>] >>

Max(a, b) == IF a >= b THEN a ELSE b

\* A scoring without the synonym rule.
SynonymScoreOff(csvNormalized, sfNormalized) == 0

\* The synonym rule: 9 when the field name contains a group's anchor and the
\* header one of the group's tokens, else 0.
SynonymScore(csvNormalized, sfNormalized) ==
  IF \E g \in 1..Len(commonMappings) :
       /\ Includes(sfNormalized, commonMappings[g].sfPattern)
       /\ \E k \in 1..Len(commonMappings[g].csvPatterns) :
            Includes(csvNormalized, commonMappings[g].csvPatterns[k])
    THEN 9 ELSE 0

\* calculateFieldMatchScore, in tenths (10 is the score 1.0).
calculateFieldMatchScore(csvField, sfField) ==
  LET csvNormalized == normalizeFieldName(csvField)
      sfNormalized == normalizeFieldName(sfField.name)
      sfLabelNormalized == normalizeFieldName(sfField.label)
      byName == IF Includes(csvNormalized, sfNormalized)
                   \/ Includes(sfNormalized, csvNormalized) THEN 8 ELSE 0
      byLabel == IF Includes(csvNormalized, sfLabelNormalized)
                    \/ Includes(sfLabelNormalized, csvNormalized) THEN 7 ELSE 0
  IN IF csvNormalized = sfNormalized \/ csvNormalized = sfLabelNormalized
       THEN 10
       ELSE Max(Max(byName, byLabel), SynonymScore(csvNormalized, sfNormalized))

\* A search in which a later field with an equal score replaces the best.
RECURSIVE BestMatchFromLatest(_, _, _, _)
BestMatchFromLatest(normalizedCsvHeader, salesforceFields, i, best) ==
  IF i > Len(salesforceFields) THEN best
  ELSE LET score == calculateFieldMatchScore(normalizedCsvHeader,
                                             salesforceFields[i])
       IN BestMatchFromLatest(normalizedCsvHeader, salesforceFields, i + 1,
            IF score >= best.score /\ score > 0
              THEN [score |-> score, match |-> i]
              ELSE best)

\* The inner forEach of generateMappingSuggestions: best is
\* [score, match], match the index of bestMatch or 0 for null.
RECURSIVE BestMatchFrom(_, _, _, _)
BestMatchFrom(normalizedCsvHeader, salesforceFields, i, best) ==
  IF i > Len(salesforceFields) THEN best
  ELSE LET score == calculateFieldMatchScore(normalizedCsvHeader,
                                             salesforceFields[i])
       IN BestMatchFrom(normalizedCsvHeader, salesforceFields, i + 1,
            IF score > best.score THEN [score |-> score, match |-> i]
                                  ELSE best)

BestMatch(csvHeader, salesforceFields) ==
  BestMatchFrom(normalizeFieldName(csvHeader), salesforceFields, 1,
                [score |-> 0, match |-> 0])

\* An object's own string keys in insertion order, as <<key, value>> pairs:
\* assigning an existing key keeps its place, a new key goes last.
SetKey(obj, k, v) ==
  IF \E i \in 1..Len(obj) : obj[i][1] = k
    THEN [i \in 1..Len(obj) |-> IF obj[i][1] = k THEN <<k, v>> ELSE obj[i]]
    ELSE Append(obj, <<k, v>>)

RECURSIVE DeleteKey(_, _)
DeleteKey(obj, k) ==
  IF obj = <<>> THEN <<>>
  ELSE IF Head(obj)[1] = k THEN DeleteKey(Tail(obj), k)
  ELSE <<Head(obj)>> \o DeleteKey(Tail(obj), k)

Keys(obj) == [i \in 1..Len(obj) |-> obj[i][1]]
Values(obj) == [i \in 1..Len(obj) |-> obj[i][2]]
HasKey(obj, k) == \E i \in 1..Len(obj) : obj[i][1] = k

\* generateMappingSuggestions: the suggestions object, keyed by header in
\* the order of csvHeaders.
RECURSIVE generateMappingSuggestionsFrom(_, _, _, _)
generateMappingSuggestionsFrom(csvHeaders, salesforceFields, i, suggestions) ==
  IF i > Len(csvHeaders) THEN suggestions
  ELSE LET best == BestMatch(csvHeaders[i], salesforceFields) IN
       generateMappingSuggestionsFrom(csvHeaders, salesforceFields, i + 1,
         IF best.score > 6
           THEN SetKey(suggestions, csvHeaders[i],
                       salesforceFields[best.match].name)
           ELSE suggestions)

generateMappingSuggestions(csvHeaders, salesforceFields) ==
  generateMappingSuggestionsFrom(csvHeaders, salesforceFields, 1, <<>>)

setMapping(mappings, csvField, salesforceField) ==
  SetKey(mappings, csvField, salesforceField)

\* validateMappings: the errors array, each error a kind and the field it
\* names.
RequiredErrors(mappings, salesforceFields) ==
  LET mappedSfFields == Range(Values(mappings)) IN
  {[kind |-> "required", field |-> salesforceFields[i].label] :
     i \in {j \in 1..Len(salesforceFields) :
              /\ salesforceFields[j].required
              /\ salesforceFields[j].name \notin mappedSfFields}}

DuplicateErrors(mappings) ==
  LET mappedSfFields == Values(mappings) IN
  {[kind |-> "duplicate", field |-> mappedSfFields[i]] :
     i \in {j \in 1..Len(mappedSfFields) :
              \E k \in 1..(j - 1) : mappedSfFields[k] = mappedSfFields[j]}}

\* A validation that looks at the required fields only.
validateMappingsRequiredOnly(mappings, salesforceFields) ==
  RequiredErrors(mappings, salesforceFields)

validateMappings(mappings, salesforceFields) ==
  RequiredErrors(mappings, salesforceFields) \cup DuplicateErrors(mappings)

PhoneChars == Digits \cup Whitespace \cup {"-", "(", ")", ".", "+"}

T_true == <<"t","r","u","e">>
T_false == <<"f","a","l","s","e">>
T_yes == <<"y","e","s">>
T_no == <<"n","o">>

booleanMap(v) ==
  IF v \in {T_true, T_yes, <<"1">>} THEN T_true ELSE T_false

BooleanWords == {T_true, T_false, T_yes, T_no, <<"1">>, <<"0">>}

\* formatValue, its three rewrites in the order of the code.
formatValue(value) ==
  LET trimmed == Trim(value)
      mailed == IF "@" \in Range(trimmed) THEN ToLowerCase(trimmed) ELSE trimmed
      phoned == IF mailed # <<>> /\ Range(mailed) \subseteq PhoneChars
                   /\ Len(mailed) >= 10
                  THEN FilterChars(mailed, Digits \cup {"+"})
                  ELSE mailed
  IN IF ToLowerCase(phoned) \in BooleanWords
       THEN booleanMap(ToLowerCase(phoned))
       ELSE phoned

\* The re-quoting of generateMappedCSV.
RECURSIVE DoubleQuotes(_)
DoubleQuotes(s) ==
  IF s = <<>> THEN <<>>
  ELSE IF Head(s) = "\"" THEN <<"\"", "\"">> \o DoubleQuotes(Tail(s))
  ELSE <<Head(s)>> \o DoubleQuotes(Tail(s))

\* A re-quoting that wraps the value and leaves its quotes single.
QuoteValueKeepsQuotes(value) ==
  IF Range(value) \cap {",", "\"", "\n"} # {}
    THEN <<"\"">> \o value \o <<"\"">>
    ELSE value

QuoteValue(value) ==
  IF Range(value) \cap {",", "\"", "\n"} # {}
    THEN <<"\"">> \o DoubleQuotes(value) \o <<"\"">>
    ELSE value

\* row[csvField] || '': a key the row does not have reads as undefined.
MappedRow(row, mappings) ==
  [j \in 1..Len(mappings) |->
     QuoteValue(formatValue(
       IF mappings[j][1] \in DOMAIN row THEN row[mappings[j][1]] ELSE <<>>))]

ErrNoData == <<"No data or mappings available">>

\* generateMappedCSV: csvData is the optional row array of the processor.
generateMappedCSV(csvData, mappings) ==
  IF csvData = None \/ Len(mappings) = 0
    THEN [error |-> Some(ErrNoData), text |-> <<>>]
    ELSE LET rows == The(csvData)
             csvLines == <<Join(Values(mappings), ",")>> \o
                         [r \in 1..Len(rows) |->
                            Join(MappedRow(rows[r], mappings), ",")]
         IN [error |-> None, text |-> Join(csvLines, "\n")]

\* ------------------------------------------- CSVProcessor: new-field advice
Letters == Range(Lower) \cup Range(Upper)

UpperChar(c) ==
  IF c \in Range(Lower)
    THEN Upper[CHOOSE i \in 1..26 : Lower[i] = c]
    ELSE c

\* replace(/\s+/g, '_')
RECURSIVE CollapseWhitespace(_)
CollapseWhitespace(s) ==
  IF s = <<>> THEN <<>>
  ELSE IF Head(s) \in Whitespace
    THEN <<"_">> \o CollapseWhitespace(TrimStart(s))
  ELSE <<Head(s)>> \o CollapseWhitespace(Tail(s))

RECURSIVE StripLeading(_, _)
StripLeading(s, c) ==
  IF s # <<>> /\ Head(s) = c THEN StripLeading(Tail(s), c) ELSE s

RECURSIVE StripTrailing(_, _)
StripTrailing(s, c) ==
  IF s # <<>> /\ s[Len(s)] = c
    THEN StripTrailing(SubSeq(s, 1, Len(s) - 1), c)
    ELSE s

EndsWith(s, t) ==
  Len(s) >= Len(t) /\ SubSeq(s, Len(s) - Len(t) + 1, Len(s)) = t

StartsWith(s, t) == Len(s) >= Len(t) /\ SubSeq(s, 1, Len(t)) = t

CustomSuffix == <<"_", "_", "c">>

\* The developer name of generateFieldSuggestion.
DeveloperName(csvHeader) ==
  LET cleaned == StripTrailing(StripLeading(
                   CollapseWhitespace(
                     FilterChars(csvHeader,
                                 Letters \cup Digits \cup Whitespace)),
                   "_"), "_")
      lettered == IF cleaned # <<>> /\ Head(cleaned) \in Letters
                    THEN cleaned ELSE <<"X">> \o cleaned
  IN IF EndsWith(lettered, CustomSuffix) THEN lettered
                                          ELSE lettered \o CustomSuffix

WordChars == Letters \cup Digits \cup {"_"}

\* The label of generateFieldSuggestion: _ and - become spaces, then the
\* first character of every word is upper-cased.
FieldLabel(csvHeader) ==
  LET spaced == [i \in 1..Len(csvHeader) |->
                   IF csvHeader[i] \in {"_", "-"} THEN " " ELSE csvHeader[i]]
  IN [i \in 1..Len(spaced) |->
        IF spaced[i] \in WordChars /\ (i = 1 \/ spaced[i - 1] \notin WordChars)
          THEN UpperChar(spaced[i]) ELSE spaced[i]]

\* /^[^\s@]+@[^\s@]+\.[^\s@]+$/
IsEmail(val) ==
  /\ Range(val) \cap Whitespace = {}
  /\ \E a \in 2..(Len(val) - 3) :
       /\ val[a] = "@"
       /\ \A i \in 1..Len(val) : val[i] = "@" => i = a
       /\ \E d \in (a + 2)..(Len(val) - 1) : val[d] = "."

\* A test for phone numbers that nothing passes.
IsPhoneNever(val) == FALSE

\* /^[\d\s\-\(\)\.+]{10,}$/
IsPhone(val) == Len(val) >= 10 /\ Range(val) \subseteq PhoneChars

T_http == <<"h","t","t","p",":","/","/">>
T_https == <<"h","t","t","p","s",":","/","/">>

\* /^https?:\/\//
IsUrl(val) == StartsWith(val, T_http) \/ StartsWith(val, T_https)

\* !isNaN(val) && !isNaN(parseFloat(val)) for a decimal literal: an optional
\* sign, digits with at most one point and at least one digit, surrounding
\* whitespace allowed.  (The other numeric spellings of JavaScript, the
\* exponent, Infinity and the 0x, 0o and 0b prefixes, need letters.)
IsNumber(val) ==
  LET t == Trim(val)
      unsigned == IF t # <<>> /\ Head(t) \in {"+", "-"} THEN Tail(t) ELSE t
  IN /\ Range(unsigned) \subseteq Digits \cup {"."}
     /\ Range(unsigned) \cap Digits # {}
     /\ Cardinality({i \in 1..Len(unsigned) : unsigned[i] = "."}) <= 1

\* !isNaN(Date.parse(val)) for the date-only forms of the ECMAScript date
\* string format, YYYY, YYYY-MM and YYYY-MM-DD; what Date.parse does with any
\* other text is left to the engine, and such texts are kept out of the
\* columns the model reads.
TwoDigits(s, lo, hi) ==
  /\ Len(s) = 2 /\ Range(s) \subseteq Digits
  /\ \E n \in lo..hi :
       s = <<CHOOSE c \in Digits : c = ToString(n \div 10),
             CHOOSE c \in Digits : c = ToString(n % 10)>>

IsDate(val) ==
  LET parts == Split(val, "-") IN
  /\ Len(parts) \in 1..3
  /\ Len(parts[1]) = 4 /\ Range(parts[1]) \subseteq Digits
  /\ Len(parts) >= 2 => TwoDigits(parts[2], 1, 12)
  /\ Len(parts) = 3 => TwoDigits(parts[3], 1, 31)

SampleSize == 20

\* determineFieldType: csvData is the optional row array of the processor.
determineFieldType(csvData, csvHeader) ==
  LET rows == IF csvData = None THEN <<>> ELSE The(csvData)
      window == SubSeq(rows, 1, IF Len(rows) < SampleSize THEN Len(rows)
                                                         ELSE SampleSize)
      sampleValues == {window[i][csvHeader] :
                         i \in {j \in 1..Len(window) :
                                  /\ csvHeader \in DOMAIN window[j]
                                  /\ Trim(window[j][csvHeader]) # <<>>}}
      longest == CHOOSE n \in {Len(v) : v \in sampleValues} :
                   \A v \in sampleValues : Len(v) <= n
  IN IF sampleValues = {}
       THEN [type |-> "Text", length |-> 255, precision |-> 0, scale |-> 0]
     ELSE IF \E v \in sampleValues : IsEmail(v)
       THEN [type |-> "Email", length |-> 0, precision |-> 0, scale |-> 0]
     ELSE IF \E v \in sampleValues : IsPhone(v)
       THEN [type |-> "Phone", length |-> 0, precision |-> 0, scale |-> 0]
     ELSE IF \E v \in sampleValues : IsUrl(v)
       THEN [type |-> "Url", length |-> 0, precision |-> 0, scale |-> 0]
     ELSE IF \A v \in sampleValues : ToLowerCase(v) \in BooleanWords
       THEN [type |-> "Checkbox", length |-> 0, precision |-> 0, scale |-> 0]
     ELSE IF \A v \in sampleValues : IsNumber(v)
       THEN [type |-> "Number", length |-> 0, precision |-> 18,
             scale |-> IF \E v \in sampleValues : "." \in Range(v)
                         THEN 2 ELSE 0]
     ELSE IF \E v \in sampleValues : IsDate(v)
       THEN [type |-> "Date", length |-> 0, precision |-> 0, scale |-> 0]
     ELSE IF longest > 255
       THEN [type |-> "LongTextArea",
             length |-> IF longest <= 32768 THEN 32768 ELSE 131072,
             precision |-> 0, scale |-> 0]
     ELSE [type |-> "Text", length |-> IF longest > 80 THEN 255 ELSE 80,
           precision |-> 0, scale |-> 0]

\* generateFieldSuggestion: length 0 stands for null; the precision and the
\* scale of fieldType are not copied.
generateFieldSuggestion(csvData, csvHeader) ==
  LET fieldType == determineFieldType(csvData, csvHeader) IN
  [csvHeader |-> csvHeader,
   developerName |-> DeveloperName(csvHeader),
   label |-> FieldLabel(csvHeader),
   type |-> fieldType.type,
   length |-> fieldType.length,
   required |-> FALSE]

RECURSIVE suggestNewFieldsFrom(_, _, _, _, _)
suggestNewFieldsFrom(csvData, mappings, csvHeaders, existingFieldNames, i) ==
  IF i > Len(csvHeaders) THEN <<>>
  ELSE LET suggestion == generateFieldSuggestion(csvData, csvHeaders[i])
           rest == suggestNewFieldsFrom(csvData, mappings, csvHeaders,
                                        existingFieldNames, i + 1)
       IN IF /\ ~HasKey(mappings, csvHeaders[i])
             /\ ToLowerCase(suggestion.developerName) \notin existingFieldNames
            THEN <<suggestion>> \o rest
            ELSE rest

\* suggestNewFields of a processor p.
suggestNewFields(p, csvHeaders, salesforceFields) ==
  suggestNewFieldsFrom(p.csvData, p.mappings, csvHeaders,
    {ToLowerCase(salesforceFields[i].name) : i \in 1..Len(salesforceFields)},
    1)

\* ------------------------------------------------------------------ state
VARIABLES
  org,            \* the remote org: what its endpoints may answer, its schema
  disk,           \* the files the user can pick, how a FileReader may end
  storage,        \* chrome.storage.local: the stored token, if any
  user,           \* the events the user still makes in the popup
  startup,        \* checkAuthStatus of the constructor: "checking" or "done"
  api,            \* this.api: None or Some(access token)
  isConnected,    \* this.isConnected
  processor,      \* this.csvProcessor: csvData, headers, rowCount, mappings
  currentFile,    \* this.currentFile
  selectedObject, \* this.selectedObject
  objectFields,   \* this.objectFields
  errorMessage,   \* the error-message element: None when hidden
  uploadBusy,     \* upload-btn disabled and upload-progress shown
  uploadResults,  \* the upload-results element: None when hidden
  objectSelect,   \* the object-select element: its options, disabled
  mappingRows,    \* the rows renderMappingInterface put in mapping-container
  connectPc,      \* authenticate(): "idle", "authenticating", "loadingObjects"
  startupLoad,    \* loadSalesforceObjects of checkAuthStatus outstanding
  disconnects,    \* disconnect() calls waiting for auth.logout()
  reads,          \* handleFileUpload calls waiting for their FileReader
  metaLoad,       \* handleObjectSelection waiting for getObjectMetadata
  fieldRun,       \* createMissingFields: its position and locals
  runs,           \* uploadData calls: the performBulkUpload run of each
  lastLoad        \* history: the text the last onload parsed, what it threw,
                  \* whether it assigned the document of this.csvProcessor

remoteVars == <<org, disk, storage, user>>
authVars == <<startup, api, isConnected, connectPc, startupLoad, disconnects>>
dataVars == <<processor, currentFile, selectedObject, objectFields, reads,
              metaLoad, fieldRun, lastLoad>>
domVars == <<errorMessage, uploadBusy, uploadResults, objectSelect, mappingRows>>
vars == <<remoteVars, authVars, dataVars, domVars, runs>>

\* --------------------------------------------------------- SalesforceAPI
maxAttempts == 30
PollDelayMs == 2000
HttpStatus == "500"

InProgressStates == {"InProgress", "JobInProgress"}

\* What a fetch can do: answer with an ok status, answer with a non-ok
\* status, or reject (the transport failed).
ReplyKinds == {"ok", "http", "net"}
FetchRejected == <<"Failed to fetch">>

\* The message thrown inside the try of createBulkJob, uploadBulkData and
\* closeBulkJob for a reply that is not ok.
ReplyMessage(reply, httpMessage) ==
  IF reply.kind = "http" THEN <<httpMessage, HttpStatus>> ELSE FetchRejected

\* A remote call as the run's log keeps it: the endpoint, the job id in its
\* URL (or the object of the submit), how it ended, what it returned.
Call(op, id) == [op |-> op, id |-> id, ms |-> 0, st |-> "pending", ret |-> <<>>]
Timer(ms) == [op |-> "setTimeout", id |-> <<>>, ms |-> ms, st |-> "pending",
              ret |-> <<>>]

Ended(calls, st, ret) ==
  [calls EXCEPT ![Len(calls)] = [@ EXCEPT !.st = st, !.ret = ret]]

IdleRun ==
  [pc |-> "idle", objectName |-> None, csvData |-> <<>>, job |-> None,
   attempts |-> 0, jobStatus |-> None, results |-> None, calls |-> <<>>,
   outcome |-> None]

\* catch (error) { throw new Error(`Bulk upload failed: ${error.message}`) }
Throw(r, message) ==
  [r EXCEPT !.pc = "thrown",
            !.outcome = Some([kind |-> "error",
                              message |-> <<"Bulk upload failed">> \o message])]

\* The request each step issues.
createBulkJobCall(r) == Call("createBulkJob", r.objectName)
uploadBulkDataCallWrongJob(r) == Call("uploadBulkData", None)
uploadBulkDataCall(r) == Call("uploadBulkData", r.job)
closeBulkJobCall(r) == Call("closeBulkJob", r.job)
getBulkJobStatusCall(r) == Call("getBulkJobStatus", r.job)
getBulkJobResultsCalls(r) ==
  <<Call("successfulResults", r.job), Call("failedResults", r.job)>>

\* performBulkUpload up to its first await.
performBulkUpload(objectName, csvData) ==
  LET r == [IdleRun EXCEPT !.objectName = objectName, !.csvData = csvData]
  IN [r EXCEPT !.pc = "createBulkJob", !.calls = <<createBulkJobCall(r)>>]

\* createBulkJob answered: job = await response.json(), then uploadBulkData.
afterCreateBulkJob(r, reply) ==
  IF reply.kind = "ok"
    THEN LET r1 == [r EXCEPT !.job = Some(reply.id),
                             !.calls = Ended(r.calls, "ok", reply.id)]
         IN [r1 EXCEPT !.pc = "uploadBulkData",
                       !.calls = Append(r1.calls, uploadBulkDataCall(r1))]
    ELSE Throw([r EXCEPT !.calls = Ended(r.calls, "failed", <<>>)],
               <<"Bulk job creation failed">>
                 \o ReplyMessage(reply, "Failed to create bulk job"))

\* uploadBulkData answered: then closeBulkJob.
afterUploadBulkDataKeepsGoing(r, reply) ==
  [r EXCEPT !.pc = "closeBulkJob",
            !.calls = Append(Ended(r.calls,
                                   IF reply.kind = "ok" THEN "ok" ELSE "failed",
                                   <<>>),
                             closeBulkJobCall(r))]

afterUploadBulkData(r, reply) ==
  IF reply.kind = "ok"
    THEN [r EXCEPT !.pc = "closeBulkJob",
                   !.calls = Append(Ended(r.calls, "ok", <<>>),
                                    closeBulkJobCall(r))]
    ELSE Throw([r EXCEPT !.calls = Ended(r.calls, "failed", <<>>)],
               <<"Data upload failed">>
                 \o ReplyMessage(reply, "Failed to upload data"))

\* closeBulkJob answered: attempts = 0 and the first wait of the loop.
afterCloseBulkJob(r, reply) ==
  IF reply.kind = "ok"
    THEN [r EXCEPT !.pc = "delay", !.attempts = 0,
                   !.calls = Append(Ended(r.calls, "ok", <<>>),
                                    Timer(PollDelayMs))]
    ELSE Throw([r EXCEPT !.calls = Ended(r.calls, "failed", <<>>)],
               <<"Job closure failed">>
                 \o ReplyMessage(reply, "Failed to close job"))

\* The timer of the loop fired: getBulkJobStatus.
afterDelay(r) ==
  [r EXCEPT !.pc = "getBulkJobStatus",
            !.calls = Append(Ended(r.calls, "ok", <<>>),
                             getBulkJobStatusCall(r))]

\* The test that ends the loop with the timeout.
AttemptsExhaustedNever(attempts) == FALSE
AttemptsExhausted(attempts) == attempts >= maxAttempts

\* getBulkJobStatus answered: attempts++, the timeout test, the loop test.
afterGetBulkJobStatus(r, reply) ==
  IF reply.kind = "ok"
    THEN LET r1 == [r EXCEPT !.jobStatus = Some(reply.status),
                             !.attempts = @ + 1,
                             !.calls = Ended(r.calls, "ok", <<>>)]
         IN IF AttemptsExhausted(r1.attempts)
              THEN Throw(r1, <<"Job monitoring timeout">>)
            ELSE IF reply.status.state \in InProgressStates
              THEN [r1 EXCEPT !.pc = "delay",
                              !.calls = Append(r1.calls, Timer(PollDelayMs))]
            ELSE [r1 EXCEPT !.pc = "getBulkJobResults",
                            !.calls = r1.calls \o getBulkJobResultsCalls(r1)]
    ELSE Throw([r EXCEPT !.calls = Ended(r.calls, "failed", <<>>)],
               <<"Failed to get job status">>
                 \o (IF reply.kind = "http"
                       THEN <<"API request failed", HttpStatus>>
                       ELSE FetchRejected))

\* response.ok ? await response.text() : ''
ResultText(reply) == IF reply.kind = "ok" THEN reply.text ELSE <<>>

EndedResults(calls, success, failure) ==
  LET n == Len(calls)
      st(reply) == IF reply.kind = "net" THEN "failed" ELSE "ok"
  IN [calls EXCEPT
        ![n - 1] = [@ EXCEPT !.st = st(success), !.ret = ResultText(success)],
        ![n] = [@ EXCEPT !.st = st(failure), !.ret = ResultText(failure)]]

\* The return value of performBulkUpload.
BulkResult(r, results) ==
  [kind |-> "result", jobId |-> r.job, status |-> The(r.jobStatus),
   results |-> results,
   recordsProcessed |-> The(r.jobStatus).numberRecordsProcessed,
   recordsFailed |-> The(r.jobStatus).numberRecordsFailed]

\* Both fetches of getBulkJobResults answered (Promise.all): a rejected
\* fetch rejects the whole call.
afterGetBulkJobResults(r, success, failure) ==
  LET r1 == [r EXCEPT !.calls = EndedResults(r.calls, success, failure)] IN
  IF success.kind = "net" \/ failure.kind = "net"
    THEN Throw(r1, <<"Failed to get job results">> \o FetchRejected)
    ELSE LET results == [successful |-> ResultText(success),
                         failed |-> ResultText(failure)]
         IN [r1 EXCEPT !.pc = "returned", !.results = Some(results),
                       !.outcome = Some(BulkResult(r1, results))]

\* What the remote may answer to each request; a reply that is not ok
\* carries no payload.
SubmitReplies ==
  {[kind |-> "ok", id |-> j] : j \in org.jobIds}
    \cup {[kind |-> k, id |-> <<>>] : k \in org.failures}

PlainReplies == {[kind |-> k] : k \in {"ok"} \cup org.failures}

JobInfo(state, counts) ==
  [state |-> state, numberRecordsProcessed |-> counts[1],
   numberRecordsFailed |-> counts[2]]

StatusReplies ==
  {[kind |-> "ok", status |-> JobInfo(s, c)] :
     s \in org.jobStates, c \in org.counts}
    \cup {[kind |-> k, status |-> JobInfo("", <<0, 0>>)] : k \in org.failures}

ResultReplies(text) ==
  {[kind |-> "ok", text |-> text]}
    \cup {[kind |-> k, text |-> <<>>] : k \in org.resultFailures}

SuccessfulText == <<"sf__Id,sf__Created">>
FailedText == <<"sf__Id,sf__Error">>

\* ------------------------------------------------------------------ popup
NewProcessor ==
  [csvData |-> None, headers |-> <<>>, rowCount |-> 0, mappings |-> <<>>]

\* A display that counts every processed record as a success.
displayUploadResultsCountsAll(result) ==
  [jobId |-> result.jobId,
   processedCount |-> result.recordsProcessed,
   successCount |-> result.recordsProcessed,
   failedCount |-> result.recordsFailed,
   state |-> result.status.state,
   failedRecords |-> None]

\* displayUploadResults: what it writes into upload-results.  The counts are
\* numbers, for which x || 0 is x.
displayUploadResults(result) ==
  LET processedCount == result.recordsProcessed
      failedCount == result.recordsFailed
  IN [jobId |-> result.jobId,
      processedCount |-> processedCount,
      successCount |-> processedCount - failedCount,
      failedCount |-> failedCount,
      state |-> result.status.state,
      failedRecords |-> IF failedCount > 0 /\ result.results.failed # <<>>
                          THEN Some(result.results.failed) ELSE None]

RunEnded(r) == r.pc \in {"idle", "returned", "thrown"}
InFlight == {i \in 1..MaxRuns : ~RunEnded(runs[i])}
FreeRuns == {i \in 1..MaxRuns : RunEnded(runs[i])}

\* showUploadProgress: upload-btn.disabled = true.
showUploadProgressKeepsButton == uploadBusy
showUploadProgress == TRUE
\* hideUploadProgress: upload-btn.disabled = false.
hideUploadProgress == FALSE

ErrFixMappings == <<"Please fix mapping errors before uploading">>
ErrNoApi == <<"Cannot read properties of null">>

\* uploadData up to its first await.  A click reaches it only while
\* upload-btn is not disabled.
UploadData ==
  /\ user > 0
  /\ user' = user - 1
  /\ ~uploadBusy
  /\ FreeRuns # {}
  /\ LET errors == validateMappings(processor.mappings, objectFields)
         mapped == generateMappedCSV(processor.csvData, processor.mappings)
         slot == CHOOSE i \in FreeRuns : \A j \in FreeRuns : i <= j
     IN IF errors # {}
          THEN /\ errorMessage' = Some(ErrFixMappings)
               /\ UNCHANGED <<uploadBusy, runs>>
        ELSE IF mapped.error # None
          THEN /\ errorMessage' = Some(<<"Upload failed">> \o The(mapped.error))
               /\ uploadBusy' = hideUploadProgress
               /\ UNCHANGED runs
        ELSE IF api = None
          THEN /\ errorMessage' = Some(<<"Upload failed">> \o ErrNoApi)
               /\ uploadBusy' = hideUploadProgress
               /\ UNCHANGED runs
        ELSE /\ uploadBusy' = showUploadProgress
             /\ runs' = [runs EXCEPT
                           ![slot] = performBulkUpload(selectedObject,
                                                       mapped.text)]
             /\ UNCHANGED errorMessage
  /\ UNCHANGED <<org, disk, storage, authVars, dataVars, uploadResults, objectSelect,
                 mappingRows>>

\* A step of run i took it to r; when r has ended, uploadData resumes in the
\* same turn: displayUploadResults on a result, the catch on an error.
Resume(i, r) ==
  /\ runs' = [runs EXCEPT ![i] = r]
  /\ IF r.pc = "returned"
       THEN /\ uploadResults' = Some(displayUploadResults(The(r.outcome)))
            /\ uploadBusy' = hideUploadProgress
            /\ UNCHANGED errorMessage
     ELSE IF r.pc = "thrown"
       THEN /\ errorMessage' = Some(<<"Upload failed">>
                                      \o The(r.outcome).message)
            /\ uploadBusy' = hideUploadProgress
            /\ UNCHANGED uploadResults
     ELSE UNCHANGED <<errorMessage, uploadBusy, uploadResults>>
  /\ UNCHANGED <<remoteVars, authVars, dataVars, objectSelect, mappingRows>>

CreateBulkJobReply ==
  \E i \in 1..MaxRuns : \E reply \in SubmitReplies :
    /\ runs[i].pc = "createBulkJob"
    /\ Resume(i, afterCreateBulkJob(runs[i], reply))

UploadBulkDataReply ==
  \E i \in 1..MaxRuns : \E reply \in PlainReplies :
    /\ runs[i].pc = "uploadBulkData"
    /\ Resume(i, afterUploadBulkData(runs[i], reply))

CloseBulkJobReply ==
  \E i \in 1..MaxRuns : \E reply \in PlainReplies :
    /\ runs[i].pc = "closeBulkJob"
    /\ Resume(i, afterCloseBulkJob(runs[i], reply))

PollTimerFires ==
  \E i \in 1..MaxRuns :
    /\ runs[i].pc = "delay"
    /\ Resume(i, afterDelay(runs[i]))

GetBulkJobStatusReply ==
  \E i \in 1..MaxRuns : \E reply \in StatusReplies :
    /\ runs[i].pc = "getBulkJobStatus"
    /\ Resume(i, afterGetBulkJobStatus(runs[i], reply))

GetBulkJobResultsReply ==
  \E i \in 1..MaxRuns :
    \E success \in ResultReplies(SuccessfulText),
       failure \in ResultReplies(FailedText) :
      /\ runs[i].pc = "getBulkJobResults"
      /\ Resume(i, afterGetBulkJobResults(runs[i], success, failure))

\* ---------------------------------------------------- popup: the session
AccessToken == <<"00D...token">>
RefreshToken == <<"5Aep...token">>

DescribeReplies == {[kind |-> k] : k \in {"ok"} \cup org.failures}

ErrLoadObjects == <<"Failed to load objects", "Failed to fetch objects">>
ErrLoadFields ==
  <<"Failed to load object fields", "Failed to fetch object metadata">>
ErrValidation == <<"Mapping validation errors">>

\* getAccessToken: the stored token while it has not expired.
getAccessToken ==
  IF storage # None /\ ~The(storage).expired
    THEN Some(The(storage).accessToken) ELSE None

\* checkAuthStatus, called by the constructor.
CheckAuthStatus ==
  /\ startup = "checking"
  /\ startup' = "done"
  /\ IF getAccessToken # None
       THEN /\ api' = getAccessToken
            /\ isConnected' = TRUE
            /\ startupLoad' = TRUE
       ELSE UNCHANGED <<api, isConnected, startupLoad>>
  /\ UNCHANGED <<remoteVars, connectPc, disconnects, dataVars, domVars, runs>>

\* populateObjectSelect: the options of the objects getObjects listed.
populateObjectSelect == [objectSelect EXCEPT !.options = DOMAIN org.fields]

\* loadSalesforceObjects of checkAuthStatus resumes.
StartupObjectsLoaded ==
  /\ startupLoad
  /\ startupLoad' = FALSE
  /\ \E reply \in DescribeReplies :
       IF reply.kind = "ok"
         THEN /\ objectSelect' = populateObjectSelect
              /\ UNCHANGED errorMessage
         ELSE /\ errorMessage' = Some(ErrLoadObjects)
              /\ UNCHANGED objectSelect
  /\ UNCHANGED <<remoteVars, startup, api, isConnected, connectPc, disconnects,
                 dataVars, uploadBusy, uploadResults, mappingRows, runs>>

\* authenticate(): connect-btn is shown while not connected and disabled
\* while the call runs.
Authenticate ==
  /\ user > 0
  /\ user' = user - 1
  /\ ~isConnected
  /\ connectPc = "idle"
  /\ connectPc' = "authenticating"
  /\ UNCHANGED <<org, disk, storage, startup, api, isConnected, startupLoad,
                 disconnects, dataVars, domVars, runs>>

\* auth.authenticate() settled: the token is stored and the objects are
\* requested, or the error is shown.
AuthenticateDone ==
  /\ connectPc = "authenticating"
  /\ \E ok \in org.logins :
       IF ok
         THEN /\ storage' = Some([accessToken |-> AccessToken,
                                   refreshToken |-> RefreshToken,
                                   expired |-> FALSE])
              /\ api' = Some(AccessToken)
              /\ isConnected' = TRUE
              /\ connectPc' = "loadingObjects"
              /\ UNCHANGED errorMessage
         ELSE /\ errorMessage' = Some(<<"Authentication failed">>)
              /\ connectPc' = "idle"
              /\ UNCHANGED <<storage, api, isConnected>>
  /\ UNCHANGED <<org, disk, user, startup, startupLoad, disconnects, dataVars,
                 uploadBusy, uploadResults, objectSelect, mappingRows, runs>>

\* loadSalesforceObjects of authenticate() resumes; authenticate() then
\* hides the error element.
AuthObjectsLoaded ==
  /\ connectPc = "loadingObjects"
  /\ connectPc' = "idle"
  /\ \E reply \in DescribeReplies :
       objectSelect' = IF reply.kind = "ok" THEN populateObjectSelect
                                            ELSE objectSelect
  /\ errorMessage' = None
  /\ UNCHANGED <<remoteVars, startup, api, isConnected, startupLoad,
                 disconnects, dataVars, uploadBusy, uploadResults, mappingRows,
                 runs>>

\* disconnect(): disconnect-btn is shown while connected.
Disconnect ==
  /\ user > 0
  /\ user' = user - 1
  /\ isConnected
  /\ disconnects' = disconnects + 1
  /\ UNCHANGED <<org, disk, storage, startup, api, isConnected, connectPc, startupLoad,
                 dataVars, domVars, runs>>

NoRows == [headers |-> <<>>, options |-> <<>>]

\* auth.logout() settled: api = null, updateConnectionStatus(false) and
\* resetForm().  The reads still outstanding belong to the processor that
\* resetForm replaces.
DisconnectDone ==
  /\ disconnects > 0
  /\ disconnects' = disconnects - 1
  /\ storage' = None
  /\ api' = None
  /\ isConnected' = FALSE
  /\ currentFile' = None
  /\ selectedObject' = None
  /\ objectFields' = <<>>
  /\ processor' = NewProcessor
  /\ reads' = [k \in 1..Len(reads) |-> [reads[k] EXCEPT !.orphan = TRUE]]
  /\ mappingRows' = NoRows
  /\ uploadResults' = None
  /\ errorMessage' = None
  /\ UNCHANGED <<org, disk, user, startup, connectPc, startupLoad, metaLoad, fieldRun,
                 lastLoad, uploadBusy, objectSelect, runs>>

T_csv == <<".", "c", "s", "v">>

\* handleFileUpload up to its await: the name test, currentFile, and the
\* FileReader of parseCSV.
HandleFileUpload ==
  /\ user > 0
  /\ user' = user - 1
  /\ \E file \in disk.files :
       IF ~EndsWith(ToLowerCase(file.name), T_csv)
         THEN /\ errorMessage' = Some(<<"Please select a CSV file">>)
              /\ UNCHANGED <<currentFile, reads>>
         ELSE /\ currentFile' = Some(file)
              /\ reads' = Append(reads, [file |-> file, orphan |-> FALSE])
              /\ UNCHANGED errorMessage
  /\ UNCHANGED <<org, disk, storage, authVars, processor, selectedObject, objectFields,
                 metaLoad, fieldRun, lastLoad, uploadBusy, uploadResults,
                 objectSelect, mappingRows, runs>>

Remove(seq, k) == SubSeq(seq, 1, k - 1) \o SubSeq(seq, k + 1, Len(seq))

\* reader.onload of parseCSV for a processor p: the fields it assigns.
onload(p, parsed) ==
  [p EXCEPT !.csvData = Some(parsed.data),
            !.headers = parsed.headers,
            !.rowCount = Len(parsed.data)]

\* A FileReader finished: onload parses the text, assigns the fields of its
\* processor and resolves, or rejects with the parse error; onerror rejects.
\* handleFileUpload resumes in the same turn.
FileReaderDone ==
  \E k \in 1..Len(reads) : \E loaded \in disk.reads :
    LET read == reads[k]
        parsed == parseCSVText(read.file.text)
        after == IF read.orphan THEN processor ELSE onload(processor, parsed)
    IN /\ reads' = Remove(reads, k)
       /\ IF ~loaded
            THEN /\ errorMessage' = Some(<<"File processing failed",
                                           "File reading failed">>)
                 /\ UNCHANGED <<processor, lastLoad>>
          ELSE IF parsed.error # None
            THEN /\ errorMessage' = Some(<<"File processing failed",
                                           "CSV parsing failed">>
                                           \o The(parsed.error))
                 /\ lastLoad' = Some([text |-> read.file.text,
                                      thrown |-> parsed.error,
                                      replaced |-> FALSE])
                 /\ UNCHANGED processor
          ELSE /\ processor' = after
               /\ errorMessage' = None
               /\ lastLoad' = Some([text |-> read.file.text,
                                    thrown |-> None,
                                    replaced |-> ~read.orphan])
       /\ UNCHANGED <<remoteVars, authVars, currentFile, selectedObject,
                      objectFields, metaLoad, fieldRun, uploadBusy,
                      uploadResults, objectSelect, mappingRows, runs>>

\* showLoading and hideLoading on object-select: both assign textContent,
\* which replaces the options of the select by a text node.
showLoadingSelect == [options |-> {}, disabled |-> TRUE]
hideLoadingSelect == [options |-> {}, disabled |-> FALSE]

\* updateUploadStep: the error element after it, for the mappings m and the
\* fields it validates against.
updateUploadStep(m, fields) ==
  IF Len(m) > 0
    THEN IF validateMappings(m, fields) # {} THEN Some(ErrValidation) ELSE None
    ELSE errorMessage

\* handleObjectSelection up to its await.  The change event comes from an
\* option of the select, which is disabled while a call runs.
HandleObjectSelection ==
  /\ user > 0
  /\ user' = user - 1
  /\ ~objectSelect.disabled
  /\ \E objectName \in objectSelect.options :
       /\ selectedObject' = Some(objectName)
       /\ IF api = None
            THEN /\ errorMessage' = Some(<<"Failed to load object fields">>
                                           \o ErrNoApi)
                 /\ objectSelect' = hideLoadingSelect
                 /\ UNCHANGED metaLoad
            ELSE /\ metaLoad' = Some(objectName)
                 /\ objectSelect' = showLoadingSelect
                 /\ UNCHANGED errorMessage
  /\ UNCHANGED <<org, disk, storage, authVars, processor, currentFile, objectFields,
                 reads, fieldRun, lastLoad, uploadBusy, uploadResults,
                 mappingRows, runs>>

\* generateFieldMappings: setMapping for every suggestion, in their order.
RECURSIVE ApplySuggestions(_, _)
ApplySuggestions(mappings, suggestions) ==
  IF suggestions = <<>> THEN mappings
  ELSE ApplySuggestions(setMapping(mappings, Head(suggestions)[1],
                                   Head(suggestions)[2]),
                        Tail(suggestions))

generateFieldMappings(p, fields) ==
  [p EXCEPT !.mappings =
     ApplySuggestions(p.mappings, generateMappingSuggestions(p.headers, fields))]

\* renderMappingInterface: one row per header, each with the fields as its
\* options.
renderMappingInterface(p, fields) ==
  [headers |-> p.headers,
   options |-> [i \in 1..Len(fields) |-> fields[i].name]]

\* getObjectMetadata answered: objectFields, generateFieldMappings and the
\* rendering, or the error; then hideLoading.
ObjectMetadataLoaded ==
  /\ metaLoad # None
  /\ metaLoad' = None
  /\ objectSelect' = hideLoadingSelect
  /\ \E reply \in DescribeReplies :
       IF reply.kind = "ok"
         THEN LET fields == org.fields[The(metaLoad)]
                  p == generateFieldMappings(processor, fields)
              IN /\ objectFields' = fields
                 /\ processor' = p
                 /\ mappingRows' = renderMappingInterface(p, fields)
                 /\ errorMessage' = updateUploadStep(p.mappings, fields)
         ELSE /\ errorMessage' = Some(ErrLoadFields)
              /\ UNCHANGED <<objectFields, processor, mappingRows>>
  /\ UNCHANGED <<remoteVars, authVars, currentFile, selectedObject, reads,
                 fieldRun, lastLoad, uploadBusy, uploadResults, runs>>

\* The change handler of a mapping row: the row's header and the value of
\* one of its options, or the empty value of the placeholder option.
MappingChange ==
  /\ user > 0
  /\ user' = user - 1
  /\ \E header \in Range(mappingRows.headers) :
       \E value \in Range(mappingRows.options) \cup {<<>>} :
         LET m == IF value # <<>>
                    THEN setMapping(processor.mappings, header, value)
                    ELSE DeleteKey(processor.mappings, header)
         IN /\ processor' = [processor EXCEPT !.mappings = m]
            /\ errorMessage' = updateUploadStep(m, objectFields)
  /\ UNCHANGED <<org, disk, storage, authVars, currentFile, selectedObject,
                 objectFields, reads, metaLoad, fieldRun, lastLoad, uploadBusy,
                 uploadResults, objectSelect, mappingRows, runs>>

\* ------------------------------------------------ popup: createMissingFields
IdleFieldRun ==
  [pc |-> "idle", suggestions |-> <<>>, index |-> 0, target |-> None,
   log |-> <<>>, alert |-> None]

AlertNoFields == <<"No new fields need to be created">>
AlertCreated == <<"Fields created successfully! Please refresh your mapping.">>

\* One createCustomField of the loop, as the run's log keeps it.
Attempt(suggestion, target, ok) ==
  [developerName |-> suggestion.developerName, object |-> target, ok |-> ok]

\* The loop of createMissingFields from suggestion i on, up to the next
\* await: without an api every createCustomField throws at once and is
\* caught inside the loop, and the getObjectMetadata after the loop throws
\* into the outer catch.
RECURSIVE CreateLoop(_, _)
CreateLoop(run, i) ==
  IF i > Len(run.suggestions)
    THEN IF api = None
           THEN [run EXCEPT !.pc = "failed", !.index = i, !.target = None]
           ELSE [run EXCEPT !.pc = "reloading", !.index = i,
                            !.target = selectedObject]
  ELSE IF api = None
    THEN CreateLoop([run EXCEPT !.log = Append(@, Attempt(run.suggestions[i],
                                                         selectedObject,
                                                         FALSE))],
                    i + 1)
  ELSE [run EXCEPT !.pc = "creating", !.index = i, !.target = selectedObject]

\* The run r reached an await or its end; at its end the catch shows the
\* error and the finally re-enables create-fields-btn.
SettleFieldRun(r) ==
  IF r.pc = "failed"
    THEN /\ fieldRun' = [r EXCEPT !.pc = "idle"]
         /\ errorMessage' = Some(<<"Field creation failed">> \o ErrNoApi)
    ELSE /\ fieldRun' = r
         /\ UNCHANGED errorMessage

\* createMissingFields up to its first await, the confirm dialog accepted
\* (declining it changes nothing).  create-fields-btn is disabled while a
\* call runs.
CreateMissingFields ==
  /\ user > 0
  /\ user' = user - 1
  /\ fieldRun.pc = "idle"
  /\ LET suggestions == suggestNewFields(processor, processor.headers,
                                         objectFields)
     IN IF Len(suggestions) = 0
          THEN /\ fieldRun' = [IdleFieldRun EXCEPT !.alert = Some(AlertNoFields)]
               /\ UNCHANGED errorMessage
          ELSE SettleFieldRun(
                 CreateLoop([IdleFieldRun EXCEPT !.suggestions = suggestions],
                            1))
  /\ UNCHANGED <<org, disk, storage, authVars, processor, currentFile, selectedObject,
                 objectFields, reads, metaLoad, lastLoad, uploadBusy,
                 uploadResults, objectSelect, mappingRows, runs>>

\* createCustomField: the fieldData it posts for a field definition.
createCustomFieldData(objectName, fieldDefinition) ==
  [DeveloperName |-> fieldDefinition.developerName,
   Label |-> fieldDefinition.label,
   TableEnumOrId |-> objectName,
   Type |-> fieldDefinition.type,
   Length |-> fieldDefinition.length,
   Required |-> fieldDefinition.required]

\* The field the remote adds for a createCustomField it accepts.
CreatedField(suggestion) ==
  [name |-> suggestion.developerName, label |-> suggestion.label,
   type |-> suggestion.type, required |-> FALSE]

\* The remote accepts a field for an object it has, under a name the object
\* does not have yet.
Creatable(target, suggestion) ==
  /\ "ok" \in org.createReplies
  /\ target # None
  /\ The(target) \in DOMAIN org.fields
  /\ \A i \in 1..Len(org.fields[The(target)]) :
       org.fields[The(target)][i].name # suggestion.developerName

\* createCustomField answered: the loop logs the outcome and goes on.
CreateCustomFieldReply ==
  /\ fieldRun.pc = "creating"
  /\ LET suggestion == fieldRun.suggestions[fieldRun.index]
         target == fieldRun.target
     IN \E ok \in BOOLEAN :
          /\ ok => Creatable(target, suggestion)
          /\ ~ok => org.createReplies # {"ok"}
          /\ org' = IF ok
                      THEN [org EXCEPT !.fields[The(target)] =
                                         Append(@, CreatedField(suggestion))]
                      ELSE org
          /\ SettleFieldRun(
               CreateLoop([fieldRun EXCEPT
                             !.log = Append(@, Attempt(suggestion, target, ok))],
                          fieldRun.index + 1))
  /\ UNCHANGED <<disk, storage, user, authVars, processor, currentFile, selectedObject,
                 objectFields, reads, metaLoad, lastLoad, uploadBusy,
                 uploadResults, objectSelect, mappingRows, runs>>

\* getObjectMetadata of createMissingFields answered: objectFields, the
\* rendering and the alert, or the error; then hideLoading.
FieldsReloaded ==
  /\ fieldRun.pc = "reloading"
  /\ \E reply \in IF fieldRun.target # None
                      /\ The(fieldRun.target) \in DOMAIN org.fields
                    THEN DescribeReplies ELSE {[kind |-> "http"]} :
       /\ IF reply.kind = "ok"
            THEN LET fields == org.fields[The(fieldRun.target)] IN
                 /\ objectFields' = fields
                 /\ mappingRows' = renderMappingInterface(processor, fields)
                 /\ errorMessage' = updateUploadStep(processor.mappings, fields)
                 /\ fieldRun' = [fieldRun EXCEPT !.pc = "idle",
                                                 !.alert = Some(AlertCreated)]
            ELSE /\ errorMessage' = Some(<<"Field creation failed",
                                           "Failed to fetch object metadata">>)
                 /\ fieldRun' = [fieldRun EXCEPT !.pc = "idle"]
                 /\ UNCHANGED <<objectFields, mappingRows>>
  /\ UNCHANGED <<remoteVars, authVars, processor, currentFile, selectedObject,
                 reads, metaLoad, lastLoad, uploadBusy, uploadResults,
                 objectSelect, runs>>

\* ------------------------------------------------------------- the worlds
T_Email == <<"E","m","a","i","l">>
T_Name == <<"N","a","m","e">>
Contact == <<"Contact">>
Account == <<"Account">>

FieldEmail ==
  [name |-> T_Email, label |-> T_Email, type |-> "email", required |-> TRUE]
FieldName ==
  [name |-> T_Name, label |-> T_Name, type |-> "string", required |-> FALSE]

\* a.csv: headers A and B, one row.
FileAB ==
  [name |-> <<"a",".","c","s","v">>,
   text |-> <<"A",",","B","\n","1",",","2">>]
\* c.CSV: header C, one row.
FileC ==
  [name |-> <<"c",".","C","S","V">>, text |-> <<"C","\n","3">>]
\* empty.csv: nothing but white space and line breaks.
FileBlank ==
  [name |-> <<"e",".","c","s","v">>, text |-> <<" ","\n"," ">>]
\* notes.txt: not a CSV file by its name.
FileTxt ==
  [name |-> <<"n",".","t","x","t">>, text |-> <<"A">>]

BulkJobStates ==
  {"UploadComplete", "InProgress", "JobInProgress", "JobComplete", "Failed"}

StoredToken ==
  Some([accessToken |-> AccessToken, refreshToken |-> RefreshToken,
        expired |-> FALSE])

\* The remote of the bulk-job runs: both in-progress spellings and three
\* other job states, two job ids, every way a request can fail; its schema
\* is fixed.
BulkOrg ==
  [jobIds |-> {<<"750A">>, <<"750B">>},
   jobStates |-> BulkJobStates,
   counts |-> {<<100, 5>>, <<100, 0>>},
   failures |-> {"http", "net"},
   resultFailures |-> {"http", "net"},
   createReplies |-> {"failed"},
   logins |-> {TRUE},
   fields |-> (Contact :> <<FieldEmail>>)]

\* The state the constructor leaves, in a world of a remote, the user's
\* files, the stored token and the number of events the user makes.
Fresh(o, d, s, n) ==
  /\ org = o
  /\ disk = d
  /\ storage = s
  /\ user = n
  /\ startup = "checking"
  /\ api = None
  /\ isConnected = FALSE
  /\ processor = NewProcessor
  /\ currentFile = None
  /\ selectedObject = None
  /\ objectFields = <<>>
  /\ errorMessage = None
  /\ uploadBusy = FALSE
  /\ uploadResults = None
  /\ objectSelect = [options |-> {}, disabled |-> FALSE]
  /\ mappingRows = NoRows
  /\ connectPc = "idle"
  /\ startupLoad = FALSE
  /\ disconnects = 0
  /\ reads = <<>>
  /\ metaLoad = None
  /\ fieldRun = IdleFieldRun
  /\ runs = [i \in 1..MaxRuns |-> IdleRun]
  /\ lastLoad = None

\* ---------------------------------------------- the bulk-job orchestration
\* The session once the stored token was found, the file f was read and the
\* object was selected, with nothing outstanding: the state in which the
\* upload button is pressed.
Ready(o, f, objectName, n) ==
  LET fields == o.fields[objectName]
      p == generateFieldMappings(onload(NewProcessor, parseCSVText(f.text)),
                                 fields)
  IN /\ org = o
     /\ disk = [files |-> {f}, reads |-> {TRUE}]
     /\ storage = StoredToken
     /\ user = n
     /\ startup = "done"
     /\ api = Some(AccessToken)
     /\ isConnected = TRUE
     /\ processor = p
     /\ currentFile = Some(f)
     /\ selectedObject = Some(objectName)
     /\ objectFields = fields
     /\ errorMessage = None
     /\ uploadBusy = FALSE
     /\ uploadResults = None
     /\ objectSelect = hideLoadingSelect
     /\ mappingRows = renderMappingInterface(p, fields)
     /\ connectPc = "idle"
     /\ startupLoad = FALSE
     /\ disconnects = 0
     /\ reads = <<>>
     /\ metaLoad = None
     /\ fieldRun = IdleFieldRun
     /\ runs = [i \in 1..MaxRuns |-> IdleRun]
     /\ lastLoad = Some([text |-> f.text, thrown |-> None, replaced |-> TRUE])

\* The upload button and the runs of performBulkUpload it starts, against
\* every behaviour of the remote.
InitBulk == Ready(BulkOrg, FileAB, Contact, MaxUploads)

NextBulk ==
  \/ UploadData
  \/ CreateBulkJobReply
  \/ UploadBulkDataReply
  \/ CloseBulkJobReply
  \/ PollTimerFires
  \/ GetBulkJobStatusReply
  \/ GetBulkJobResultsReply

SpecBulk == InitBulk /\ [][NextBulk]_vars

\* ---------------------------------------------------- the popup session
\* The remote of the session: its requests are answered, except that a
\* result request may fail in transport and field creation is refused; a job
\* is complete at its first status.
SessionOrg ==
  [jobIds |-> {<<"750A">>},
   jobStates |-> {"JobComplete"},
   counts |-> {<<100, 0>>},
   failures |-> {},
   resultFailures |-> {"net"},
   createReplies |-> {"failed"},
   logins |-> {TRUE},
   fields |-> (Contact :> <<FieldEmail>>)]

\* Every event of the popup from its construction on, in any order its
\* elements allow, with one file to pick.
InitSession ==
  Fresh(SessionOrg, [files |-> {FileC}, reads |-> {TRUE}], StoredToken,
        MaxSessionEvents)

NextSession ==
  \/ CheckAuthStatus
  \/ StartupObjectsLoaded
  \/ Authenticate
  \/ AuthenticateDone
  \/ AuthObjectsLoaded
  \/ Disconnect
  \/ DisconnectDone
  \/ HandleFileUpload
  \/ FileReaderDone
  \/ HandleObjectSelection
  \/ ObjectMetadataLoaded
  \/ MappingChange
  \/ CreateMissingFields
  \/ CreateCustomFieldReply
  \/ FieldsReloaded
  \/ UploadData
  \/ CreateBulkJobReply
  \/ UploadBulkDataReply
  \/ CloseBulkJobReply
  \/ PollTimerFires
  \/ GetBulkJobStatusReply
  \/ GetBulkJobResultsReply

SpecSession == InitSession /\ [][NextSession]_vars

\* ------------------------------------------------ files and the mapping
\* The remote while files are loaded and the mapping is edited: a request
\* may fail in transport; a job is complete at its first status.
FilesOrg ==
  [jobIds |-> {<<"750A">>},
   jobStates |-> {"JobComplete"},
   counts |-> {<<100, 0>>},
   failures |-> {"net"},
   resultFailures |-> {},
   createReplies |-> {"failed"},
   logins |-> {TRUE},
   fields |-> (Contact :> <<FieldEmail>>)]

\* The user picks among four files, selects the object, edits the mapping
\* and presses upload; a FileReader may fail.
InitFiles ==
  Fresh(FilesOrg,
        [files |-> {FileAB, FileC, FileBlank, FileTxt}, reads |-> {TRUE, FALSE}],
        StoredToken, MaxFileEvents)

NextFiles ==
  \/ CheckAuthStatus
  \/ StartupObjectsLoaded
  \/ HandleFileUpload
  \/ FileReaderDone
  \/ HandleObjectSelection
  \/ ObjectMetadataLoaded
  \/ MappingChange
  \/ UploadData
  \/ CreateBulkJobReply
  \/ UploadBulkDataReply
  \/ CloseBulkJobReply
  \/ PollTimerFires
  \/ GetBulkJobStatusReply
  \/ GetBulkJobResultsReply

SpecFiles == InitFiles /\ [][NextFiles]_vars

\* ------------------------------------------------ properties of the runs
\* The runs that were started, and the views of a run's log the properties
\* below are stated over.
Started == {i \in 1..MaxRuns : runs[i].pc # "idle"}
Ops(c, ops) == {k \in 1..Len(c) : c[k].op \in ops}
JobCalls ==
  {"uploadBulkData", "closeBulkJob", "getBulkJobStatus", "successfulResults",
   "failedResults"}
ResultCalls == {"successfulResults", "failedResults"}

\* The call that may follow each call of a run.
Successors(op) ==
  CASE op = "createBulkJob" -> {"uploadBulkData"}
    [] op = "uploadBulkData" -> {"closeBulkJob"}
    [] op = "closeBulkJob" -> {"setTimeout"}
    [] op = "setTimeout" -> {"getBulkJobStatus"}
    [] op = "getBulkJobStatus" -> {"setTimeout", "successfulResults"}
    [] op = "successfulResults" -> {"failedResults"}
    [] OTHER -> {}

TimedOut(r) ==
  /\ r.pc = "thrown"
  /\ The(r.outcome).message = <<"Bulk upload failed", "Job monitoring timeout">>

\* C1: in every run the remote calls are issued in the order submit, upload,
\* close, then waits and status polls, then the results fetch (its two
\* requests together); a call is issued only once the one before it has
\* completed successfully; and upload, close, every poll and both result
\* requests carry the job id that the run's submit returned.
C1_CallsInOrder ==
  \A i \in Started :
    LET c == runs[i].calls IN
    /\ Len(c) >= 1
    /\ c[1].op = "createBulkJob"
    /\ \A k \in 1..(Len(c) - 1) :
         /\ c[k + 1].op \in Successors(c[k].op)
         /\ c[k].op # "successfulResults" => c[k].st = "ok"
    /\ \A k \in Ops(c, JobCalls) :
         /\ c[1].st = "ok"
         /\ c[k].id = Some(c[1].ret)

\* A run that polled twice and then fetched and returned the results.
C1_Witness ==
  \E i \in Started :
    /\ runs[i].pc = "returned"
    /\ runs[i].attempts = 2
    /\ Cardinality(Ops(runs[i].calls, ResultCalls)) = 2

\* The step an error message names.
StepError(op) ==
  CASE op = "createBulkJob" -> "Bulk job creation failed"
    [] op = "uploadBulkData" -> "Data upload failed"
    [] op = "closeBulkJob" -> "Job closure failed"

FailedSteps(c) ==
  {k \in Ops(c, {"createBulkJob", "uploadBulkData", "closeBulkJob"}) :
     c[k].st = "failed"}

\* C2: when submit, upload or close fails, it is the last call of the run:
\* the step was issued once, nothing follows it (after a failed upload there
\* is no close), and the run has ended in an error whose message names the
\* step that failed.
C2_FailedStepAborts ==
  \A i \in Started :
    LET r == runs[i]
        c == r.calls
    IN \A k \in FailedSteps(c) :
         /\ k = Len(c)
         /\ Ops(c, {c[k].op}) = {k}
         /\ c[k].op = "uploadBulkData" => Ops(c, {"closeBulkJob"}) = {}
         /\ r.pc = "thrown"
         /\ The(r.outcome).message[1] = "Bulk upload failed"
         /\ The(r.outcome).message[2] = StepError(c[k].op)

\* A run whose upload failed.
C2_Witness ==
  \E i \in Started :
    /\ FailedSteps(runs[i].calls) # {}
    /\ runs[i].calls[Len(runs[i].calls)].op = "uploadBulkData"
    /\ runs[i].pc = "thrown"

\* C3: a run ends in the monitoring timeout only when the last status it
\* fetched is still an in-progress state; a status outside the in-progress
\* states, at any attempt from 1 to 30, leads to the results.
C3_TimeoutOnlyInProgress ==
  \A i \in Started :
    TimedOut(runs[i]) => The(runs[i].jobStatus).state \in InProgressStates

\* The 30th status fetch answered JobComplete and the run ended in the
\* monitoring timeout, without fetching the results.
C3_Witness ==
  \E i \in Started :
    /\ TimedOut(runs[i])
    /\ runs[i].attempts = maxAttempts
    /\ The(runs[i].jobStatus).state = "JobComplete"
    /\ Ops(runs[i].calls, ResultCalls) = {}

\* The loop is left for the results only on a status that is not in
\* progress, so the last status tells whether every status was in progress.
EveryStatusInProgress(r) ==
  /\ r.jobStatus # None
  /\ The(r.jobStatus).state \in InProgressStates

\* C4: after the close a run fetches the status at most 30 times, each fetch
\* right after a completed wait of the fixed delay; with the 30th answer the
\* run has ended; and a run whose every status was in progress fetches no
\* results and, once its 30th status has arrived, has ended in the
\* monitoring timeout.
C4_PollingTerminates ==
  \A i \in Started :
    LET r == runs[i]
        c == r.calls
    IN /\ Cardinality(Ops(c, {"getBulkJobStatus"})) <= maxAttempts
       /\ r.attempts <= maxAttempts
       /\ \A k \in Ops(c, {"getBulkJobStatus"}) :
            /\ k > 1
            /\ c[k - 1] = [Timer(PollDelayMs) EXCEPT !.st = "ok"]
       /\ r.attempts = maxAttempts => RunEnded(r)
       /\ EveryStatusInProgress(r) =>
            /\ Ops(c, ResultCalls) = {}
            /\ r.attempts = maxAttempts => TimedOut(r)

\* Thirty statuses in progress: the timeout, and no results fetched.
C4_Witness ==
  \E i \in Started :
    /\ EveryStatusInProgress(runs[i])
    /\ Cardinality(Ops(runs[i].calls, {"getBulkJobStatus"})) = maxAttempts
    /\ TimedOut(runs[i])

Unavailable(call) == call.st = "failed" \/ call.ret = <<>>

\* The runs whose two result requests have been answered, exactly one of them
\* without a payload.
OneResultUnavailable ==
  {i \in Started :
     LET c == runs[i].calls
         n == Len(c)
     IN /\ n >= 2
        /\ c[n].op = "failedResults"
        /\ c[n].st # "pending"
        /\ Unavailable(c[n - 1]) # Unavailable(c[n])}

\* C8: when exactly one of the two result requests gives no payload, the run
\* still returns its outcome, with empty text for that payload and the text
\* of the other one.
C8_OneResultUnavailable ==
  \A i \in OneResultUnavailable :
    LET c == runs[i].calls
        n == Len(c)
    IN /\ runs[i].pc = "returned"
       /\ The(runs[i].outcome).results =
            [successful |-> IF Unavailable(c[n - 1]) THEN <<>>
                            ELSE SuccessfulText,
             failed |-> IF Unavailable(c[n]) THEN <<>> ELSE FailedText]

\* The failed-results request failed in transport while the successful
\* results arrived: the run ended in an error instead of an outcome.
C8_Witness ==
  \E i \in OneResultUnavailable :
    LET c == runs[i].calls IN
    /\ c[Len(c)].st = "failed"
    /\ c[Len(c) - 1].ret = SuccessfulText
    /\ runs[i].pc = "thrown"

\* -------------------------------------------- properties of the session
\* C6: at most one run of performBulkUpload is in flight, whatever the user
\* does meanwhile; a second run starts only once the first has returned or
\* thrown.
C6_OneRunInFlight == Cardinality(InFlight) <= 1

\* A second run in flight, after the results of a first one were shown.
C6_Witness ==
  /\ InFlight # {}
  /\ uploadResults # None

\* A run of performBulkUpload starts in this step.
JobSubmitted ==
  \E i \in 1..MaxRuns :
    /\ runs[i].pc # "createBulkJob"
    /\ runs'[i].pc = "createBulkJob"

MappedTargets == {processor.mappings[k][2] : k \in 1..Len(processor.mappings)}

\* A document is loaded, the mapping table is not empty, no two headers have
\* the same target, every required field of the schema is a target.
UploadPreconditions ==
  /\ processor.csvData # None
  /\ Len(processor.mappings) > 0
  /\ Cardinality(MappedTargets) = Len(processor.mappings)
  /\ \A k \in 1..Len(objectFields) :
       objectFields[k].required => objectFields[k].name \in MappedTargets

\* C7: a job is submitted only when a document is loaded, the mapping table
\* is not empty, has no duplicate target and covers the required fields;
\* otherwise uploadData shows an error, starts no run and leaves the
\* document and the mapping table as they were.
C7_SubmitOnlyWhenValid ==
  [][/\ JobSubmitted => UploadPreconditions
     /\ (UploadData /\ ~UploadPreconditions) =>
          /\ errorMessage' \in {Some(ErrFixMappings),
                                Some(<<"Upload failed">> \o ErrNoData)}
          /\ runs' = runs
          /\ processor' = processor]_vars

\* Upload was pressed with A and B both mapped to Email: the error is
\* shown and no run was started.
C7_Witness ==
  /\ processor.mappings = << <<<<"A">>, T_Email>>, <<<<"B">>, T_Email>> >>
  /\ errorMessage = Some(ErrFixMappings)
  /\ \A i \in 1..MaxRuns : runs[i].pc = "idle"

\* C9: every key of the mapping table is a header of the loaded document.
C9_MappingKeysAreHeaders ==
  \A k \in 1..Len(processor.mappings) :
    processor.mappings[k][1] \in Range(processor.headers)

\* a.csv was loaded and A mapped to Email, then c.CSV was loaded: the
\* document has the header C and the mapping table still has the key A.
C9_Witness ==
  /\ currentFile = Some(FileC)
  /\ processor.headers = << <<"C">> >>
  /\ processor.mappings = << <<<<"A">>, T_Email>> >>

\* C10: an onload whose text is empty after trimming throws the empty-file
\* error and does not assign the document of the processor.
C10_EmptyInputFails ==
  (lastLoad # None /\ Trim(The(lastLoad).text) = <<>>) =>
    /\ The(lastLoad).thrown = Some(ErrEmptyFile)
    /\ ~The(lastLoad).replaced

\* The blank file was read after a.csv: nothing was thrown, and the
\* document is now one empty header and no rows.
C10_Witness ==
  /\ lastLoad # None
  /\ The(lastLoad).text = FileBlank.text
  /\ The(lastLoad).thrown = None
  /\ processor.headers = << <<>> >>
  /\ processor.csvData = Some(<<>>)
  /\ processor.mappings # <<>>
  /\ errorMessage = None

\* ------------------------------------------- the tokenizer and serializer
\* The length of the raw texts a file may hold.
MaxTextLen == 4
\* The length of the cell values a file is serialized from.
MaxCellLen == 3
\* The events the user makes while one file is tokenized and serialized.
MaxCsvEvents == 3

\* The texts of at most n characters over an alphabet.
Texts(chars, n) == UNION {[1..k -> chars] : k \in 0..n}

TextChars == {"a", "b", ",", "\"", "\n"}
CellChars == {"a", ",", "\"", "\n", " "}

T_a == <<"a">>
T_b == <<"b">>
FieldA == [name |-> T_a, label |-> T_a, type |-> "string", required |-> FALSE]
FieldB == [name |-> T_b, label |-> T_b, type |-> "string", required |-> FALSE]

\* The cell value of the quoting example: a,b"c
ExampleValue == <<"a", ",", "b", "\"", "c">>
CellValues == Texts(CellChars, MaxCellLen) \cup {ExampleValue}

\* A file of one column a and one row, the row's cell written the way
\* generateMappedCSV writes a value.
SingleCell(v) == <<"a", "\n">> \o QuoteValue(v)

CsvFile(text) == [name |-> <<"f",".","c","s","v">>, text |-> text]

\* A file of the columns a and b whose data lines are the given text.
TwoColumns(lines) == <<"a", ",", "b", "\n">> \o lines

CsvTexts ==
  Texts(TextChars, MaxTextLen)
    \cup {SingleCell(v) : v \in CellValues}
    \cup {TwoColumns(lines) : lines \in Texts(TextChars, MaxCellLen)}

\* The remote while one file is tokenized and serialized: its object has
\* the optional fields a and b, and every request is answered.
CsvOrg ==
  [jobIds |-> {<<"750A">>},
   jobStates |-> {"JobComplete"},
   counts |-> {<<100, 0>>},
   failures |-> {},
   resultFailures |-> {},
   createReplies |-> {"failed"},
   logins |-> {TRUE},
   fields |-> (Contact :> <<FieldA, FieldB>>)]

\* The session once checkAuthStatus found the stored token and the objects
\* were listed: nothing loaded, nothing selected.
Connected(o, d, n) ==
  /\ org = o
  /\ disk = d
  /\ storage = StoredToken
  /\ user = n
  /\ startup = "done"
  /\ api = Some(AccessToken)
  /\ isConnected = TRUE
  /\ processor = NewProcessor
  /\ currentFile = None
  /\ selectedObject = None
  /\ objectFields = <<>>
  /\ errorMessage = None
  /\ uploadBusy = FALSE
  /\ uploadResults = None
  /\ objectSelect = [options |-> DOMAIN o.fields, disabled |-> FALSE]
  /\ mappingRows = NoRows
  /\ connectPc = "idle"
  /\ startupLoad = FALSE
  /\ disconnects = 0
  /\ reads = <<>>
  /\ metaLoad = None
  /\ fieldRun = IdleFieldRun
  /\ runs = [i \in 1..MaxRuns |-> IdleRun]
  /\ lastLoad = None

\* The user has one file, of any text: the file is read and tokenized, the
\* object is selected, which maps the headers, and the upload serializes
\* the mapped document.
InitCsv ==
  \E text \in CsvTexts :
    Connected(CsvOrg, [files |-> {CsvFile(text)}, reads |-> {TRUE}],
              MaxCsvEvents)

NextCsv ==
  \/ HandleFileUpload
  \/ FileReaderDone
  \/ HandleObjectSelection
  \/ ObjectMetadataLoaded
  \/ UploadData

SpecCsv == InitCsv /\ [][NextCsv]_vars

\* The document of the processor is the one the last onload tokenized.
Tokenized(text) ==
  /\ lastLoad = Some([text |-> text, thrown |-> None, replaced |-> TRUE])
  /\ processor.csvData # None

\* C11: a file whose one data cell is the quoted form of a value v that
\* contains a line-feed (and no surrounding white space) tokenizes to one
\* row whose cell is v.
C11_QuotedLineFeed ==
  \A v \in CellValues :
    ("\n" \in Range(v) /\ Trim(v) = v /\ Tokenized(SingleCell(v))) =>
      The(processor.csvData) = <<(T_a :> v)>>

\* The file a / "a<LF>a" was tokenized: the document has two rows, each
\* with the cell a.
C11_Witness ==
  /\ Tokenized(SingleCell(<<"a", "\n", "a">>))
  /\ The(processor.csvData) = <<(T_a :> <<"a">>), (T_a :> <<"a">>)>>

\* The headers of the document are pairwise different and each is mapped to
\* the target of its own name, in the order of the headers.
IdentityMapped ==
  /\ processor.csvData # None
  /\ \A i, j \in 1..Len(processor.headers) :
       processor.headers[i] = processor.headers[j] => i = j
  /\ processor.mappings =
       [i \in 1..Len(processor.headers) |->
          <<processor.headers[i], processor.headers[i]>>]

\* The runs whose csvData is what generateMappedCSV makes of the document
\* and the mapping table the processor has now.
SerializedRuns ==
  {i \in Started :
     LET mapped == generateMappedCSV(processor.csvData, processor.mappings)
     IN mapped.error = None /\ runs[i].csvData = mapped.text}

\* C12: the CSV uploaded for a document with unique headers under the
\* identity mapping tokenizes to the same headers and as many rows, each
\* cell the formatValue of the original cell.
C12_IdentityRoundTrip ==
  \A i \in SerializedRuns :
    IdentityMapped =>
      LET rows == The(processor.csvData)
          back == parseCSVText(runs[i].csvData)
      IN /\ back.error = None
         /\ back.headers = processor.headers
         /\ Len(back.data) = Len(rows)
         /\ \A r \in 1..Len(rows) :
              \A h \in Range(processor.headers) :
                r <= Len(back.data) =>
                  back.data[r][h] = formatValue(rows[r][h])

\* The file a, "" was uploaded under the mapping a -> a: the document has
\* one row, its cell empty, and the uploaded text is the header line and an
\* empty line, which tokenizes to no row.
C12_Witness ==
  /\ IdentityMapped
  /\ processor.headers = <<T_a>>
  /\ The(processor.csvData) = <<(T_a :> <<>>)>>
  /\ \E i \in SerializedRuns :
       /\ runs[i].csvData = <<"a", "\n">>
       /\ parseCSVText(runs[i].csvData).data = <<>>

\* ------------------------------------------------- the order of the columns
\* The events the user makes while editing the mapping of one file.
MaxMappingEvents == 4

\* The remote while the mapping is edited: its object has the required
\* field Email and the optional field Name, and every request is answered.
MappingOrg ==
  [jobIds |-> {<<"750A">>},
   jobStates |-> {"JobComplete"},
   counts |-> {<<100, 0>>},
   failures |-> {},
   resultFailures |-> {},
   createReplies |-> {"failed"},
   logins |-> {TRUE},
   fields |-> (Contact :> <<FieldEmail, FieldName>>)]

\* a.csv is loaded and Contact selected, which maps A to Email; the user
\* assigns, clears and re-assigns targets and presses upload.
InitMapping == Ready(MappingOrg, FileAB, Contact, MaxMappingEvents)

NextMapping ==
  \/ MappingChange
  \/ UploadData

SpecMapping == InitMapping /\ [][NextMapping]_vars

\* The mapped headers in the order of the headers of the file, and the
\* target of a mapped header.
MappedHeaders ==
  SelectSeq(processor.headers, LAMBDA h : HasKey(processor.mappings, h))

TargetOf(h) ==
  processor.mappings[CHOOSE k \in 1..Len(processor.mappings) :
                       processor.mappings[k][1] = h][2]

\* The CSV of the mapped columns in the order of the headers of the file.
InHeaderOrder ==
  LET rows == The(processor.csvData)
      cols == MappedHeaders
      line(row) == Join([j \in 1..Len(cols) |->
                           QuoteValue(formatValue(row[cols[j]]))], ",")
  IN Join(<<Join([j \in 1..Len(cols) |-> TargetOf(cols[j])], ",")>>
            \o [r \in 1..Len(rows) |-> line(rows[r])],
          "\n")

\* C13: the uploaded CSV lists the mapped columns, in its header row and in
\* every data row, in the order of the headers of the file.
C13_ColumnsInHeaderOrder ==
  \A i \in SerializedRuns :
    Range(Keys(processor.mappings)) \subseteq Range(processor.headers) =>
      runs[i].csvData = InHeaderOrder

\* A was cleared, B mapped to Name and A mapped again to Email: the upload
\* has the column of B before the column of A (formatValue writes the cell
\* 1 of column A as true).
C13_Witness ==
  /\ processor.headers = << <<"A">>, <<"B">> >>
  /\ processor.mappings = << <<<<"B">>, T_Name>>, <<<<"A">>, T_Email>> >>
  /\ \E i \in SerializedRuns :
       runs[i].csvData =
         <<"N","a","m","e",",","E","m","a","i","l","\n","2",",">> \o T_true

\* ------------------------------------------------ the rows of the tokenizer
\* The lines of a text that make a row: the lines after the first that are
\* not blank, in their order.
DataLines(text) ==
  SelectSeq(Tail(Split(Trim(text), "\n")), LAMBDA l : Trim(l) # <<>>)

\* C14: the document tokenized from a text has one row per non-blank line
\* after the first, in the order of the lines; every row has exactly the
\* header names as its keys, the cell of a header being the cell at its
\* position in the line, or the empty string when the line is shorter.
C14_RowsHaveHeaderKeys ==
  \A load \in lastLoad :
    Tokenized(load.text) =>
      LET rows == The(processor.csvData)
          headers == processor.headers
          lines == DataLines(load.text)
      IN /\ Len(rows) = Len(lines)
         /\ \A r \in 1..Len(rows) :
              /\ DOMAIN rows[r] = Range(headers)
              /\ r <= Len(lines) =>
                   LET cells == parseCSVLine(lines[r]) IN
                   \A j \in 1..Len(headers) :
                     (\A k \in (j + 1)..Len(headers) :
                        headers[k] # headers[j]) =>
                       rows[r][headers[j]] =
                         IF j <= Len(cells) THEN cells[j] ELSE <<>>

\* The file a,b / (blank line) / a was tokenized: one row, the cell of b
\* empty.
C14_Witness ==
  /\ Tokenized(TwoColumns(<<"\n", "a">>))
  /\ processor.headers = <<T_a, T_b>>
  /\ The(processor.csvData) = <<(T_a :> <<"a">>) @@ (T_b :> <<>>)>>

\* ------------------------------------------------- the quoting of a value
\* The cell values the quoting is claimed to keep: no white space at either
\* end, no line break, left unchanged by formatValue; and not empty, since
\* an empty data line makes no row.
PlainValue(v) ==
  /\ v # <<>>
  /\ Trim(v) = v
  /\ "\n" \notin Range(v)
  /\ formatValue(v) = v

\* The file of each cell value.
SingleCells == [v \in CellValues |-> SingleCell(v)]

\* The literal line of the quoting example: "a,b""c"
ExampleLine == <<"\"", "a", ",", "b", "\"", "\"", "c", "\"">>

\* C15: the file written for a plain cell value v tokenizes to the one cell
\* v, and the upload under the identity mapping writes the same text again;
\* the value a,b"c is written as the line "a,b""c".
C15_QuotingRoundTrip ==
  \A i \in SerializedRuns : \A load \in lastLoad :
    (IdentityMapped /\ Tokenized(load.text)) =>
      /\ \A v \in CellValues :
           (SingleCells[v] = load.text /\ PlainValue(v)) =>
             /\ The(processor.csvData) = <<(T_a :> v)>>
             /\ parseCSVLine(QuoteValue(v)) = <<v>>
             /\ runs[i].csvData = load.text
      /\ load.text = SingleCell(ExampleValue) =>
           /\ load.text = <<"a", "\n">> \o ExampleLine
           /\ parseCSVLine(ExampleLine) = <<ExampleValue>>

\* The file a / "a,b""c" was tokenized to the cell a,b"c and uploaded under
\* the mapping a -> a as the same text.
C15_Witness ==
  /\ Tokenized(<<"a", "\n">> \o ExampleLine)
  /\ The(processor.csvData) = <<(T_a :> ExampleValue)>>
  /\ IdentityMapped
  /\ \E i \in SerializedRuns : runs[i].csvData = <<"a", "\n">> \o ExampleLine

\* ------------------------------------------------- the mapping suggestions
\* The headers of a file and the fields of an object, at most.
MaxHeaders == 2
MaxFields == 2
\* The events the user makes to get the suggestions for one file.
MaxMatchEvents == 2

H_EmailAddress == <<"E","m","a","i","l"," ","A","d","d","r","e","s","s">>
H_fname == <<"f","n","a","m","e">>
H_Qty == <<"Q","t","y">>
MatchHeaders == {H_EmailAddress, H_fname, H_Qty, T_Email}

FieldFirstName ==
  [name |-> <<"F","i","r","s","t","N","a","m","e">>,
   label |-> <<"F","i","r","s","t"," ","N","a","m","e">>,
   type |-> "string", required |-> FALSE]
FieldId ==
  [name |-> <<"I","d">>,
   label |-> <<"R","e","c","o","r","d"," ","I","D">>,
   type |-> "id", required |-> FALSE]
FieldEmailCopy ==
  [name |-> <<"E","m","a","i","l","_","_","c">>,
   label |-> T_Email, type |-> "email", required |-> FALSE]
MatchFields == {FieldEmail, FieldFirstName, FieldId, FieldEmailCopy}

\* The lists of one to n different elements of a set.
Lists(set, n) ==
  {l \in UNION {[1..k -> set] : k \in 1..n} :
     \A i, j \in 1..Len(l) : l[i] = l[j] => i = j}

\* The remote whose object has the given fields, in their order.
MatchOrg(fields) == [CsvOrg EXCEPT !.fields = (Contact :> fields)]

\* The user has one file, a line of headers, and the object has a list of
\* fields: the file is read and the object is selected, which suggests a
\* target for every header.
InitMatch ==
  \E headers \in Lists(MatchHeaders, MaxHeaders) :
    \E fields \in Lists(MatchFields, MaxFields) :
      Connected(MatchOrg(fields),
                [files |-> {CsvFile(Join(headers, ","))}, reads |-> {TRUE}],
                MaxMatchEvents)

NextMatch ==
  \/ HandleFileUpload
  \/ FileReaderDone
  \/ HandleObjectSelection
  \/ ObjectMetadataLoaded

SpecMatch == InitMatch /\ [][NextMatch]_vars

\* The fields of the selected object were matched against the headers of
\* the document.
Suggested ==
  /\ objectFields # <<>>
  /\ processor.headers # <<>>
  /\ mappingRows.headers = processor.headers

\* One text contains the other, the contained one not being empty.
SubstringRelated(s, t) ==
  \/ t # <<>> /\ Includes(s, t)
  \/ s # <<>> /\ Includes(t, s)

\* A synonym group links a normalized header and a normalized field name.
SynonymLinked(csvNormalized, sfNormalized) ==
  \E g \in 1..Len(commonMappings) :
    /\ Includes(sfNormalized, commonMappings[g].sfPattern)
    /\ \E k \in 1..Len(commonMappings[g].csvPatterns) :
         Includes(csvNormalized, commonMappings[g].csvPatterns[k])

\* A header and a field with nothing in common.
Unrelated(header, field) ==
  LET h == normalizeFieldName(header)
      n == normalizeFieldName(field.name)
      l == normalizeFieldName(field.label)
  IN /\ h # n /\ h # l
     /\ ~SubstringRelated(h, n)
     /\ ~SubstringRelated(h, l)
     /\ ~SynonymLinked(h, n)

\* C16: a header scores below 0.6 against a field it is unrelated to, and
\* a header unrelated to every field of the object gets no suggestion.
C16_UnrelatedScoresLow ==
  Suggested =>
    \A header \in Range(processor.headers) :
      /\ \A f \in Range(objectFields) :
           Unrelated(header, f) => calculateFieldMatchScore(header, f) < 6
      /\ (\A f \in Range(objectFields) : Unrelated(header, f)) =>
           ~HasKey(processor.mappings, header)

\* The header Qty was matched against the one field Id, whose name
\* normalizes to the empty string: the score is 0.8 and Qty is mapped to Id.
C16_Witness ==
  /\ Suggested
  /\ processor.headers = <<H_Qty>>
  /\ objectFields = <<FieldId>>
  /\ normalizeFieldName(FieldId.name) = <<>>
  /\ Unrelated(H_Qty, FieldId)
  /\ calculateFieldMatchScore(H_Qty, FieldId) = 8
  /\ processor.mappings = << <<H_Qty, FieldId.name>> >>

\* C17: the header Email Address scores 1.0 against the field with the
\* name and the label Email.
C17_EmailAddressScoresOne ==
  (Suggested /\ H_EmailAddress \in Range(processor.headers)
     /\ FieldEmail \in Range(objectFields)) =>
    calculateFieldMatchScore(H_EmailAddress, FieldEmail) = 10

\* Email Address was matched against the one field Email and mapped to it,
\* with the score 0.9 of the synonym rule.
C17_Witness ==
  /\ Suggested
  /\ processor.headers = <<H_EmailAddress>>
  /\ objectFields = <<FieldEmail>>
  /\ processor.mappings = << <<H_EmailAddress, T_Email>> >>
  /\ normalizeFieldName(H_EmailAddress) # normalizeFieldName(T_Email)
  /\ calculateFieldMatchScore(H_EmailAddress, FieldEmail) = 9

\* One text contains the other.
Contains(s, t) == Includes(s, t) \/ Includes(t, s)

\* C18: the score of a header against a field is 1.0 exactly when the
\* normalized header equals the normalized name or label; otherwise it is
\* the greatest of 0.8 (header and name contain one another), 0.7 (header
\* and label) and 0.9 (a synonym group links them), and 0 when none
\* applies; fname against FirstName scores at least 0.9.
C18_ScoreRules ==
  Suggested =>
    \A header \in Range(processor.headers) : \A f \in Range(objectFields) :
      LET score == calculateFieldMatchScore(header, f)
          h == normalizeFieldName(header)
          n == normalizeFieldName(f.name)
          l == normalizeFieldName(f.label)
          rules == {0} \cup (IF Contains(h, n) THEN {8} ELSE {})
                       \cup (IF Contains(h, l) THEN {7} ELSE {})
                       \cup (IF SynonymLinked(h, n) THEN {9} ELSE {})
      IN /\ score \in {0, 7, 8, 9, 10}
         /\ score = 10 <=> (h = n \/ h = l)
         /\ score # 10 => (score \in rules /\ \A s \in rules : s <= score)
         /\ (header = H_fname /\ f = FieldFirstName) => score >= 9

\* fname was matched against the one field FirstName and mapped to it: the
\* normalized texts differ and do not contain one another, the score is the
\* 0.9 of the synonym rule.
C18_Witness ==
  /\ Suggested
  /\ processor.headers = <<H_fname>>
  /\ objectFields = <<FieldFirstName>>
  /\ ~Contains(normalizeFieldName(H_fname),
               normalizeFieldName(FieldFirstName.name))
  /\ calculateFieldMatchScore(H_fname, FieldFirstName) = 9
  /\ processor.mappings = << <<H_fname, FieldFirstName.name>> >>

\* The score generateMappingSuggestions computes for a header and a field:
\* it hands the normalized header to calculateFieldMatchScore.
SuggestionScore(header, field) ==
  calculateFieldMatchScore(normalizeFieldName(header), field)

\* C19: every header is mapped to the earliest of the fields with the
\* greatest score when that score exceeds 0.6, and is not mapped otherwise.
C19_EarliestBestField ==
  Suggested =>
    \A header \in Range(processor.headers) :
      LET n == Len(objectFields)
          score == [i \in 1..n |-> SuggestionScore(header, objectFields[i])]
          best == CHOOSE i \in 1..n :
                    /\ \A j \in 1..n : score[j] <= score[i]
                    /\ \A j \in 1..(i - 1) : score[j] < score[i]
      IN IF score[best] > 6
           THEN /\ HasKey(processor.mappings, header)
                /\ \A k \in 1..Len(processor.mappings) :
                     processor.mappings[k][1] = header =>
                       processor.mappings[k][2] = objectFields[best].name
           ELSE ~HasKey(processor.mappings, header)

\* Email was matched against Email__c and Email, in this order, which both
\* score 1.0: it is mapped to the earlier one, Email__c.
C19_Witness ==
  /\ Suggested
  /\ processor.headers = <<T_Email>>
  /\ objectFields = <<FieldEmailCopy, FieldEmail>>
  /\ SuggestionScore(T_Email, FieldEmailCopy) = 10
  /\ SuggestionScore(T_Email, FieldEmail) = 10
  /\ processor.mappings = << <<T_Email, FieldEmailCopy.name>> >>

\* ------------------------------------------------ the type of a new field
\* The rows with a blank cell in column B that a file begins with, at most.
MaxBlankRows == 20
\* The events the user makes to get the new fields of one file suggested.
MaxFieldEvents == 2

\* The cells column B may hold after its blank cells: an e-mail address, a
\* number, a word, or nothing more.
SampleCells ==
  {<<"a", "@", "b", ".", "c">>, <<"1", "2">>, <<"w">>, <<>>}

RECURSIVE Repeated(_, _)
Repeated(line, k) == IF k = 0 THEN <<>> ELSE line \o Repeated(line, k - 1)

\* A file of the columns A and B: k rows with the cell x in A and a blank
\* cell in B, then one row with the cell x in A and the given cell in B.
BlankThen(k, cell) ==
  <<"A", ",", "B">> \o Repeated(<<"\n", "x", ",">>, k + 1) \o cell

\* The user has one such file and no object selected: the file is read and
\* the creation of the missing fields is asked for, which suggests a field
\* for each header and sends them to the remote, which refuses them.
InitFields ==
  \E k \in 0..MaxBlankRows : \E cell \in SampleCells :
    Connected(CsvOrg,
              [files |-> {CsvFile(BlankThen(k, cell))}, reads |-> {TRUE}],
              MaxFieldEvents)

NextFields ==
  \/ HandleFileUpload
  \/ FileReaderDone
  \/ CreateMissingFields
  \/ CreateCustomFieldReply
  \/ FieldsReloaded

SpecFields == InitFields /\ [][NextFields]_vars

\* The rows of the document whose cell in a column is not blank.
NonBlankRows(csvHeader) ==
  SelectSeq(The(processor.csvData),
            LAMBDA row : Trim(row[csvHeader]) # <<>>)

\* C20: the type suggested for a column is the type of its first 20
\* non-blank values, wherever they are in the column, and the default
\* Text/255 when it has none.
C20_SamplesNonBlankValues ==
  processor.csvData # None =>
    \A k \in 1..Len(fieldRun.suggestions) :
      LET suggestion == fieldRun.suggestions[k]
          sampled == determineFieldType(
                       Some(NonBlankRows(suggestion.csvHeader)),
                       suggestion.csvHeader)
      IN /\ suggestion.type = sampled.type
         /\ suggestion.length = sampled.length

\* Column B has 20 blank cells and then an e-mail address in row 21: the
\* field suggested for it is the default Text/255.
C20_Witness ==
  /\ lastLoad # None
  /\ The(lastLoad).text = BlankThen(SampleSize, <<"a", "@", "b", ".", "c">>)
  /\ processor.csvData # None
  /\ Len(The(processor.csvData)) = SampleSize + 1
  /\ The(processor.csvData)[SampleSize + 1][<<"B">>]
       = <<"a", "@", "b", ".", "c">>
  /\ \E k \in 1..Len(fieldRun.suggestions) :
       /\ fieldRun.suggestions[k].csvHeader = <<"B">>
       /\ fieldRun.suggestions[k].type = "Text"
       /\ fieldRun.suggestions[k].length = 255

\* ------------------------------------------------ the inference of a type
\* The values a column has, at most.
MaxSamples == 3
\* The events the user makes to get the type of one column inferred.
MaxTypeEvents == 2

V_email == <<"a","@","b",".","c">>
V_phone == <<"1","2","3","4","5","6","7","8","9","0">>
V_url == <<"h","t","t","p",":","/","/","x">>
V_No == <<"N","o">>
V_10 == <<"1","0">>
V_20_5 == <<"2","0",".","5">>
V_7 == <<"7">>
\* A date of ten characters would pass the test of a phone number first.
V_date == <<"2","0","2","4","-","0","1">>
V_word == <<"w">>
TypedValues ==
  {V_email, V_phone, V_url, T_true, V_No, <<"1">>, V_10, V_20_5, V_7, V_date,
   V_word}

\* The samples of a column, as determineFieldType takes them.
Samples(csvData, csvHeader) ==
  LET rows == The(csvData)
      n == IF Len(rows) < SampleSize THEN Len(rows) ELSE SampleSize
  IN {rows[r][csvHeader] : r \in {q \in 1..n : Trim(rows[q][csvHeader]) # <<>>}}

\* The tests in their order; the length of a text is not looked at here.
TypeInOrder(samples) ==
  IF \E v \in samples : IsEmail(v) THEN "Email"
  ELSE IF \E v \in samples : IsPhone(v) THEN "Phone"
  ELSE IF \E v \in samples : IsUrl(v) THEN "Url"
  ELSE IF \A v \in samples : ToLowerCase(v) \in BooleanWords THEN "Checkbox"
  ELSE IF \A v \in samples : IsNumber(v) THEN "Number"
  ELSE IF \E v \in samples : IsDate(v) THEN "Date"
  ELSE "Text"

\* Date.parse is defined by the language for the date-time string format
\* only.  A column reaches the date test with an outcome every engine
\* agrees on when one of its values is such a date or all are words.
DateTestDecided(values) ==
  LET samples == Range(values) IN
  TypeInOrder(samples) \in {"Date", "Text"} =>
    \/ \E v \in samples : IsDate(v)
    \/ \A v \in samples : Range(v) \subseteq Letters

\* A file of the one column B with the given cells.
ColumnB(values) == <<"B", "\n">> \o Join(values, "\n")

\* The user has one file, a column of typed values, and no object selected:
\* the file is read and the creation of the missing fields is asked for.
InitTypes ==
  \E values \in UNION {[1..k -> TypedValues] : k \in 1..MaxSamples} :
    /\ DateTestDecided(values)
    /\ Connected(CsvOrg,
                 [files |-> {CsvFile(ColumnB(values))}, reads |-> {TRUE}],
                 MaxTypeEvents)

NextTypes ==
  \/ HandleFileUpload
  \/ FileReaderDone
  \/ CreateMissingFields
  \/ CreateCustomFieldReply
  \/ FieldsReloaded

SpecTypes == InitTypes /\ [][NextTypes]_vars

\* C21: a suggestion for a column inferred as Number, and the field data
\* createCustomField posts for it, carry the precision 18 and the inferred
\* scale; every suggestion has required = false.
C21_NumberCarriesScale ==
  processor.csvData # None =>
    \A k \in 1..Len(fieldRun.suggestions) :
      LET suggestion == fieldRun.suggestions[k]
          fieldType == determineFieldType(processor.csvData,
                                          suggestion.csvHeader)
          fieldData == createCustomFieldData(fieldRun.target, suggestion)
      IN /\ suggestion.required = FALSE
         /\ fieldType.type = "Number" =>
              /\ {"precision", "scale"} \subseteq DOMAIN suggestion
              /\ suggestion.precision = 18
              /\ suggestion.scale = fieldType.scale
              /\ \E precision, scale \in DOMAIN fieldData :
                   /\ fieldData[precision] = 18
                   /\ fieldData[scale] = fieldType.scale

\* The column 10, 20.5, 7 was inferred as Number with the scale 2: its
\* suggestion has the type Number and neither a precision nor a scale.
C21_Witness ==
  /\ processor.csvData # None
  /\ lastLoad # None
  /\ The(lastLoad).text = ColumnB(<<V_10, V_20_5, V_7>>)
  /\ determineFieldType(processor.csvData, <<"B">>).type = "Number"
  /\ determineFieldType(processor.csvData, <<"B">>).scale = 2
  /\ Len(fieldRun.suggestions) = 1
  /\ fieldRun.suggestions[1].type = "Number"
  /\ DOMAIN fieldRun.suggestions[1] \cap {"precision", "scale"} = {}

\* The type suggested for the column B of the loaded file when its cells
\* are the given values.
SuggestsForB(values, type) ==
  The(lastLoad).text = ColumnB(values) =>
    \A k \in 1..Len(fieldRun.suggestions) :
      fieldRun.suggestions[k].type = type

\* C22: determineFieldType applies its tests in the order Email (any
\* sample), Phone (any), Url (any), Checkbox (every), Number (every), Date
\* (any), then text: a column with one email-shaped sample is Email whatever
\* else it holds, the column true, No, 1 is Checkbox, and a column of digit
\* strings of ten characters is Phone, not Number.
C22_TestsInOrder ==
  (processor.csvData # None /\ lastLoad # None) =>
    /\ \A k \in 1..Len(fieldRun.suggestions) :
         LET suggestion == fieldRun.suggestions[k]
             samples == Samples(processor.csvData, suggestion.csvHeader)
         IN samples # {} =>
              /\ suggestion.type = TypeInOrder(samples)
              /\ (\E v \in samples : IsEmail(v)) => suggestion.type = "Email"
    /\ SuggestsForB(<<V_word, V_email, V_10>>, "Email")
    /\ SuggestsForB(<<T_true, V_No, <<"1">> >>, "Checkbox")
    /\ SuggestsForB(<<V_phone>>, "Phone")
    /\ SuggestsForB(<<V_phone, V_phone>>, "Phone")
    /\ SuggestsForB(<<V_10, V_20_5, V_7>>, "Number")
    /\ SuggestsForB(<<V_date, V_word>>, "Date")
    /\ SuggestsForB(<<V_url, V_7>>, "Url")

\* The column of one ten-digit string, which passes the test of a number as
\* well, was suggested as a Phone field.
C22_Witness ==
  /\ processor.csvData # None
  /\ lastLoad # None
  /\ The(lastLoad).text = ColumnB(<<V_phone>>)
  /\ IsNumber(V_phone)
  /\ Len(fieldRun.suggestions) = 1
  /\ fieldRun.suggestions[1].type = "Phone"

\* --------------------------------------------- the creation of the fields
\* The events the user makes around one creation of the missing fields.
MaxCreateEvents == 4

\* xy.csv: headers X and Y, which no field of the remote resembles.
FileXY ==
  [name |-> <<"x","y",".","c","s","v">>,
   text |-> <<"X",",","Y","\n","1",",","2">>]

\* The remote of the field creation: two objects, a creation is accepted or
\* refused, every other request is answered.
CreateOrg ==
  [jobIds |-> {<<"750A">>},
   jobStates |-> {"JobComplete"},
   counts |-> {<<100, 0>>},
   failures |-> {},
   resultFailures |-> {},
   createReplies |-> {"ok", "failed"},
   logins |-> {TRUE},
   fields |-> (Contact :> <<FieldName>>) @@ (Account :> <<FieldName>>)]

\* The file is read and Contact is selected; the user asks for the missing
\* fields and may disconnect, connect again and select an object meanwhile.
InitCreate == Ready(CreateOrg, FileXY, Contact, MaxCreateEvents)

NextCreate ==
  \/ CreateMissingFields
  \/ CreateCustomFieldReply
  \/ FieldsReloaded
  \/ Disconnect
  \/ DisconnectDone
  \/ Authenticate
  \/ AuthenticateDone
  \/ AuthObjectsLoaded
  \/ HandleObjectSelection
  \/ ObjectMetadataLoaded

SpecCreate == InitCreate /\ [][NextCreate]_vars

\* The run of createMissingFields has ended.
FieldRunEnded == fieldRun.pc = "idle" /\ fieldRun.suggestions # <<>>

FailedAttempts == {k \in 1..Len(fieldRun.log) : ~fieldRun.log[k].ok}

\* C23: createMissingFields attempts every suggestion exactly once, also
\* after an earlier creation failed, and reports each failed creation to the
\* user; a batch with a failed creation never ends with the message that the
\* fields were created successfully.
C23_FailuresReported ==
  FieldRunEnded =>
    /\ Len(fieldRun.log) = Len(fieldRun.suggestions)
    /\ \A k \in 1..Len(fieldRun.log) :
         fieldRun.log[k].developerName = fieldRun.suggestions[k].developerName
    /\ FailedAttempts # {} =>
         /\ fieldRun.alert # Some(AlertCreated)
         /\ errorMessage # None

\* Both creations were attempted, the first was refused, and the run ended
\* with the message of success and no error shown.
C23_Witness ==
  /\ FieldRunEnded
  /\ Len(fieldRun.suggestions) = 2
  /\ Len(fieldRun.log) = 2
  /\ ~fieldRun.log[1].ok
  /\ fieldRun.log[2].ok
  /\ fieldRun.alert = Some(AlertCreated)
  /\ errorMessage = None

\* C27: every createCustomField call of one run of createMissingFields and
\* the schema reload that follows target the object that was selected when
\* the run started, also when the user selects another object while the run
\* waits for a reply.
C27_OneTargetPerRun ==
  [][(fieldRun.pc # "idle" /\ fieldRun'.pc # "idle")
       => fieldRun'.target = fieldRun.target]_vars

\* The first creation of the run went to Contact; the user then
\* disconnected, connected again and selected Account, and the second
\* creation of the same run goes to Account.
C27_Witness ==
  /\ fieldRun.pc = "creating"
  /\ fieldRun.index = 2
  /\ Len(fieldRun.log) = 1
  /\ fieldRun.log[1].object = Some(Contact)
  /\ fieldRun.target = Some(Account)

\* ------------------------------------------------- the opening of the popup
\* The events the user makes after the popup opened.
MaxStartupEvents == 3

\* What storeTokenData left once the expiry time has passed.
ExpiredToken ==
  Some([accessToken |-> AccessToken, refreshToken |-> RefreshToken,
        expired |-> TRUE])

\* The popup opens with nothing stored, with a token in its time or with an
\* expired one; the remote answers every request.
InitStartup ==
  \E s \in {None, StoredToken, ExpiredToken} :
    Fresh(CreateOrg, [files |-> {FileXY}, reads |-> {TRUE}], s,
          MaxStartupEvents)

NextStartup ==
  \/ CheckAuthStatus
  \/ StartupObjectsLoaded
  \/ Authenticate
  \/ AuthenticateDone
  \/ AuthObjectsLoaded
  \/ Disconnect
  \/ DisconnectDone
  \/ HandleFileUpload
  \/ FileReaderDone
  \/ HandleObjectSelection
  \/ ObjectMetadataLoaded

SpecStartup == InitStartup /\ [][NextStartup]_vars

\* C24: when the stored access token has expired and a refresh token is
\* stored, checkAuthStatus leaves a connected session with a stored token
\* that has not expired, without an interactive login; getAccessToken never
\* hands out a token whose expiry time has passed.
C24_ExpiredTokenRefreshed ==
  /\ getAccessToken # None => ~The(storage).expired
  /\ (startup = "done" /\ storage # None) =>
       ~The(storage).expired /\ isConnected

\* checkAuthStatus ran with an expired access token and a refresh token in
\* the store: the token is still the expired one and the session is not
\* connected.
C24_Witness ==
  /\ startup = "done"
  /\ storage = ExpiredToken
  /\ The(storage).refreshToken = RefreshToken
  /\ ~isConnected
  /\ api = None

\* ---------------------------------------------- the state that ends a run
\* C25: performBulkUpload returns its outcome only when the last polled
\* state is JobComplete: the states of a job that is still queued
\* (UploadComplete) keep the loop polling, and a Failed job is not reported
\* as a completed upload.
C25_ReturnsOnlyJobComplete ==
  \A i \in Started :
    (runs[i].pc \in {"getBulkJobResults", "returned"}) =>
      The(runs[i].jobStatus).state = "JobComplete"

\* The first status of the run was UploadComplete: the polling stopped, the
\* results were fetched and the popup shows the counts of that status.
C25_Witness ==
  \E i \in Started :
    /\ runs[i].pc = "returned"
    /\ Cardinality(Ops(runs[i].calls, {"getBulkJobStatus"})) = 1
    /\ The(runs[i].jobStatus).state = "UploadComplete"
    /\ The(runs[i].outcome).kind = "result"
    /\ uploadResults # None
    /\ The(uploadResults).state = "UploadComplete"

\* -------------------------------------------- the selection of an object
\* The events the user makes to select one object after another.
MaxObjectEvents == 5

\* e.csv: the one header Email.
FileEmail ==
  [name |-> <<"e",".","c","s","v">>,
   text |-> T_Email \o <<"\n">> \o <<"a","@","b",".","c">>]

\* The remote of the selection: Contact has the field Email, Account has
\* not; every request is answered.
ObjectsOrg ==
  [jobIds |-> {<<"750A">>},
   jobStates |-> {"JobComplete"},
   counts |-> {<<100, 0>>},
   failures |-> {},
   resultFailures |-> {},
   createReplies |-> {"failed"},
   logins |-> {TRUE},
   fields |-> (Contact :> <<FieldEmail>>) @@ (Account :> <<FieldName>>)]

\* The popup opens with a stored token; the user loads the file, selects
\* objects, disconnects and connects.
InitObjects ==
  Fresh(ObjectsOrg, [files |-> {FileEmail}, reads |-> {TRUE}], StoredToken,
        MaxObjectEvents)

NextObjects ==
  \/ CheckAuthStatus
  \/ StartupObjectsLoaded
  \/ Authenticate
  \/ AuthenticateDone
  \/ AuthObjectsLoaded
  \/ Disconnect
  \/ DisconnectDone
  \/ HandleFileUpload
  \/ FileReaderDone
  \/ HandleObjectSelection
  \/ ObjectMetadataLoaded

SpecObjects == InitObjects /\ [][NextObjects]_vars

FieldNames(fields) == {fields[j].name : j \in 1..Len(fields)}

\* C26: every mapping target is the name of a field of the current
\* objectFields: once the fields of another object are loaded, no mapping
\* to a field of the previous object remains.
C26_TargetsAreCurrentFields ==
  Range(Values(processor.mappings)) \subseteq FieldNames(objectFields)

\* Account is selected and its fields are loaded, and the header Email is
\* still mapped to the field Email of Contact, which Account has not.
C26_Witness ==
  /\ selectedObject = Some(Account)
  /\ metaLoad = None
  /\ objectFields = ObjectsOrg.fields[Account]
  /\ HasKey(processor.mappings, T_Email)
  /\ T_Email \in Range(Values(processor.mappings))
  /\ T_Email \notin FieldNames(objectFields)

\* ------------------------------------------------- two reads outstanding
\* The events the user makes to select one file after another.
MaxReadEvents == 4

\* The user has two files that parse; every FileReader succeeds, in its own
\* time.
InitReads ==
  Connected(CsvOrg, [files |-> {FileAB, FileC}, reads |-> {TRUE}],
            MaxReadEvents)

NextReads ==
  \/ HandleFileUpload
  \/ FileReaderDone
  \/ HandleObjectSelection
  \/ ObjectMetadataLoaded

SpecReads == InitReads /\ [][NextReads]_vars

\* The processor holds the document of the file.
HoldsDocumentOf(file) ==
  LET parsed == parseCSVText(file.text) IN
  /\ processor.headers = parsed.headers
  /\ processor.csvData = Some(parsed.data)

\* C28: when files are selected one after the other and their reads are
\* outstanding together, then once the reads have finished the processor's
\* document is that of the file selected last, currentFile, in whatever
\* order the reads completed.
C28_LastSelectedFileWins ==
  (reads = <<>> /\ currentFile # None) => HoldsDocumentOf(The(currentFile))

\* a.csv was selected first and c.CSV second; the read of c.CSV finished
\* first and that of a.csv last: currentFile is c.CSV and the processor
\* holds the document of a.csv.
C28_Witness ==
  /\ reads = <<>>
  /\ currentFile = Some(FileC)
  /\ lastLoad # None
  /\ The(lastLoad).text = FileAB.text
  /\ HoldsDocumentOf(FileAB)
  /\ ~HoldsDocumentOf(FileC)

\* ------------------------------------------- the normalization of a header
H_PaidID == <<"P","a","i","d"," ","I","D">>
H_Paid == <<"P","a","i","d">>
NormHeaders == {H_PaidID, H_Paid, T_Email}

FieldPaid ==
  [name |-> H_Paid, label |-> H_Paid, type |-> "boolean", required |-> FALSE]
FieldPaidId ==
  [name |-> <<"P","a","i","d","_","I","d","_","_","x">>,
   label |-> H_PaidID, type |-> "string", required |-> FALSE]
NormFields == {FieldPaid, FieldPaidId, FieldEmail}

\* The user has one file, a line of headers of which one still ends in id
\* once it is normalized, and the object has a list of fields: the file is
\* read and the object is selected.
InitNormalize ==
  \E headers \in Lists(NormHeaders, MaxHeaders) :
    \E fields \in Lists(NormFields, MaxFields) :
      Connected(MatchOrg(fields),
                [files |-> {CsvFile(Join(headers, ","))}, reads |-> {TRUE}],
                MaxMatchEvents)

NextNormalize ==
  \/ HandleFileUpload
  \/ FileReaderDone
  \/ HandleObjectSelection
  \/ ObjectMetadataLoaded

SpecNormalize == InitNormalize /\ [][NextNormalize]_vars

\* C29: the normalization of a header takes effect exactly once: the score
\* generateMappingSuggestions uses for a header and a field is the score
\* calculateFieldMatchScore gives the header as it stands in the file, and
\* normalizing a normalized header changes nothing, also for a header whose
\* normalized form still ends in id.
C29_NormalizedOnce ==
  Suggested =>
    \A i \in 1..Len(processor.headers) :
      LET header == processor.headers[i] IN
      /\ normalizeFieldName(normalizeFieldName(header))
           = normalizeFieldName(header)
      /\ \A j \in 1..Len(objectFields) :
           SuggestionScore(header, objectFields[j])
             = calculateFieldMatchScore(header, objectFields[j])

\* The header Paid ID scores 1.0 against the field labelled Paid ID and 0.8
\* against the field Paid; normalized twice it is pa, which is the
\* normalized name of Paid: the header was mapped to Paid.
C29_Witness ==
  /\ Suggested
  /\ processor.headers = <<H_PaidID>>
  /\ objectFields = <<FieldPaidId, FieldPaid>>
  /\ normalizeFieldName(H_PaidID) = <<"p","a","i","d">>
  /\ normalizeFieldName(normalizeFieldName(H_PaidID)) = <<"p","a">>
  /\ calculateFieldMatchScore(H_PaidID, FieldPaidId) = 10
  /\ calculateFieldMatchScore(H_PaidID, FieldPaid) = 8
  /\ SuggestionScore(H_PaidID, FieldPaid) = 10
  /\ processor.mappings = <<<<H_PaidID, FieldPaid.name>>>>

\* ------------------------------------------------ the names of new fields
\* The events the user makes to get new fields suggested.
MaxNameEvents == 3

H_A_dot_B == <<"A", ".", "B">>
H_A_dash_B == <<"A", "-", "B">>
H_A_space_B == <<"A", " ", "B">>
H_A_under_B == <<"A", "_", "B">>
H_ab == <<"a", "b">>
H_1 == <<"1">>
NameHeaders ==
  {H_A_dot_B, H_A_dash_B, H_A_space_B, H_A_under_B, H_ab, H_1}

FieldABCustom ==
  [name |-> <<"A","B","_","_","c">>, label |-> <<"A","B">>,
   type |-> "string", required |-> FALSE]

\* The user has one file, a line of different headers that differ in
\* punctuation, white space or case, and the object has the custom field
\* AB__c: the object is selected and the file is read, in either order, and
\* the creation of the missing fields is asked for.
InitNames ==
  \E headers \in Lists(NameHeaders, MaxHeaders) :
    Connected(MatchOrg(<<FieldABCustom>>),
              [files |-> {CsvFile(Join(headers, ","))}, reads |-> {TRUE}],
              MaxNameEvents)

NextNames ==
  \/ HandleFileUpload
  \/ FileReaderDone
  \/ HandleObjectSelection
  \/ ObjectMetadataLoaded
  \/ CreateMissingFields
  \/ CreateCustomFieldReply
  \/ FieldsReloaded

SpecNames == InitNames /\ [][NextNames]_vars

\* A developer name of a custom field: it starts with a letter, has only
\* letters, digits and underscores, and ends with __c.
WellFormedName(name) ==
  /\ name # <<>>
  /\ Head(name) \in Letters
  /\ Range(name) \subseteq WordChars
  /\ EndsWith(name, CustomSuffix)

\* The suggestions are well formed and none is for an existing field.
NamesWellFormed(suggestions, fields) ==
  \A i \in 1..Len(suggestions) :
    /\ WellFormedName(suggestions[i].developerName)
    /\ \A j \in 1..Len(fields) :
         ToLowerCase(suggestions[i].developerName)
           # ToLowerCase(fields[j].name)

\* No two of the suggestions have the same developer name, whatever the
\* case of its letters.
NamesDiffer(suggestions) ==
  \A i, j \in 1..Len(suggestions) :
    i # j => ToLowerCase(suggestions[i].developerName)
               # ToLowerCase(suggestions[j].developerName)

\* C30: suggestNewFields never returns two suggestions with the same
\* developer name, compared without regard to case, also for headers that
\* differ only in punctuation, underscores or white space; every developer
\* name starts with a letter, has only letters, digits and underscores, ends
\* with __c and is not the name of a field of the schema.
C30_DeveloperNamesDiffer ==
  LET suggestions == suggestNewFields(processor, processor.headers,
                                      objectFields)
  IN /\ NamesWellFormed(suggestions, objectFields)
     /\ NamesDiffer(suggestions)

\* The headers A.B and A-B are different and not mapped: createMissingFields
\* got two suggestions with the developer name AB__c.
C30_Witness ==
  /\ processor.headers = <<H_A_dot_B, H_A_dash_B>>
  /\ fieldRun.pc = "creating"
  /\ fieldRun.suggestions
       = suggestNewFields(processor, processor.headers, objectFields)
  /\ Len(fieldRun.suggestions) = 2
  /\ fieldRun.suggestions[1].csvHeader = H_A_dot_B
  /\ fieldRun.suggestions[2].csvHeader = H_A_dash_B
  /\ fieldRun.suggestions[1].developerName = <<"A","B","_","_","c">>
  /\ fieldRun.suggestions[2].developerName = <<"A","B","_","_","c">>

====
